---- MODULE Spec2Model ----
(***************************************************************************)
(* A model of the proxy server's shared LRU response cache and of the      *)
(* per-connection handler, in the two variants the repository carries:     *)
(*   "cpp": proxy_cache.cpp / proxy_handler.cpp / proxy_main.cpp           *)
(*   "c"  : proxy_cache.c / hashmap.c / proxy_handler.c / proxy_main.c     *)
(* The variant is fixed when the process starts (variable impl).           *)
(***************************************************************************)
EXTENDS Integers, Sequences, FiniteSets, TLC

(***************************************************************************)
(* Bounds of the model and program constants.                              *)
(***************************************************************************)
\* Number of distinct non-empty URLs the clients ask for.
NumUrls == 3
\* Number of distinct byte values a payload is made of.
NumBytes == 2

\* proxy_cache.hpp: MAX_CACHE_BYTES (100 MiB), proxy_cache.h: MAX_CACHE_SIZE
\* (10 MiB); both scaled down to a capacity of three bytes.
MAX_CACHE_BYTES == 3
MAX_CACHE_SIZE == 3

\* The null pointer (nullptr / NULL): no heap object has this address.
NULLP == 0

UrlNames == <<"a", "b", "c", "d", "e", "f">>
\* The URL keys: the empty string and NumUrls non-empty ones.
Urls == {""} \cup {UrlNames[i] : i \in 1..NumUrls}

Bytes == 1..NumBytes
Fill(b, n) == [i \in 1..n |-> b]
\* The payloads handed to the cache (std::vector<char>(n, b), as the tests
\* build them): one of every admissible length, one-byte ones of every
\* byte value, the empty one and an oversized one.
Payloads == {Fill(1, n) : n \in 1..MAX_CACHE_BYTES}
                \cup {Fill(b, 1) : b \in Bytes}
                \cup {<<>>, Fill(1, MAX_CACHE_BYTES + 1)}

\* Addresses of heap-allocated list nodes.  The code never looks at an
\* address except to compare two of them, so which free address an allocation
\* returns does not matter; the allocator modelled here hands a node for URL
\* number i the address i when that is free, and the lowest free one otherwise.
NodeIds == 1..(NumUrls + 1)
UrlAddr(u) == IF u = "" THEN NumUrls + 1
              ELSE CHOOSE i \in 1..NumUrls : UrlNames[i] = u

VARIABLES
    impl,          \* "cpp" or "c": which variant of the program runs
    cache_system,  \* proxy_cache::Cache object of proxy_main.cpp
    g_cache,       \* static proxy_cache_t g_cache of proxy_cache.c
    call,          \* the last public cache call and what it returned
    stored,        \* history: URL -> payload of the last admitted put still resident
    recent,        \* history: resident URLs, most recently accessed first
    hung,          \* a cache call never returned (it spins holding the mutex)
    mutex,         \* cache_mutex / g_cache.mutex: 0 when free, else the holder
    th,            \* handler threads: position, locals, what each saw and sent
    lin,           \* the cache after the calls so far, in lock order, each as one step
    permits,       \* count of connection_semaphore / semaphore
    hs,            \* handleClient / handle_client invocations: position, exit path, releases
    acceptor,      \* main's accept loop: position, permits and client socket in hand
    g_is_server_running,  \* proxy_main.cpp: cleared by console_handler
    fw             \* the forwarder of one cache miss: bytes received, sent on, collected

cacheVars == <<impl, cache_system, g_cache, call, stored, recent, hung>>
concVars == <<mutex, th, lin>>
histVars == <<impl, call, stored, recent, hung>>
handlerVars == <<permits, hs>>
serverVars == <<acceptor, g_is_server_running>>
relayVars == <<fw>>

(***************************************************************************)
(* Generic helpers.                                                        *)
(***************************************************************************)
\* f with key k removed from its domain (unordered_map::erase, map_erase).
MapErase(f, k) == [x \in (DOMAIN f) \ {k} |-> f[x]]
\* f with key k bound to v (unordered_map::operator[]=, map_insert).
MapPut(f, k, v) == [x \in (DOMAIN f) \cup {k} |-> IF x = k THEN v ELSE f[x]]
\* The address the allocator returns for a new node that will hold url.
NewNode(nodes, url) ==
    IF UrlAddr(url) \notin DOMAIN nodes THEN UrlAddr(url)
    ELSE CHOOSE n \in NodeIds \ DOMAIN nodes :
             \A m \in NodeIds \ DOMAIN nodes : n <= m

SeqWithout(s, x) == SelectSeq(s, LAMBDA y : y # x)
Range(s) == {s[i] : i \in DOMAIN s}

(***************************************************************************)
(* proxy_cache.cpp: class Cache.                                           *)
(* A Cache value is [head, tail, current_size, cache_map, nodes]; nodes    *)
(* is the heap of cache_node objects, address -> [data_ptr, url, next,     *)
(* prev].  data_ptr holds the (immutable) vector it points to.             *)
(***************************************************************************)
Cache_Cache ==
    [head |-> NULLP, tail |-> NULLP, current_size |-> 0,
     cache_map |-> <<>>, nodes |-> <<>>]

\* std::weak_ptr::lock(): null once the node it names is gone.
WeakLock(c, p) == IF p \in DOMAIN c.nodes THEN p ELSE NULLP

Cache_detach_node_unlocked(c, node) ==
    IF node = NULLP THEN c
    ELSE
      LET prev_node == WeakLock(c, c.nodes[node].prev)
          next_node == c.nodes[node].next
          n1 == IF prev_node # NULLP
                THEN [c.nodes EXCEPT ![prev_node].next = next_node]
                ELSE c.nodes
          h1 == IF prev_node # NULLP THEN c.head ELSE next_node
          n2 == IF next_node # NULLP
                THEN [n1 EXCEPT ![next_node].prev = prev_node]
                ELSE n1
          t1 == IF next_node # NULLP THEN c.tail ELSE prev_node
      IN [c EXCEPT !.nodes = [n2 EXCEPT ![node].prev = NULLP,
                                        ![node].next = NULLP],
                   !.head = h1,
                   !.tail = t1]

\* Mutant: the evicted node's key stays in the map.
RECURSIVE Cache_remove_lru_node_keeps_key(_, _)
Cache_remove_lru_node_keeps_key(c, required_space) ==
    IF c.tail # NULLP /\ c.current_size + required_space > MAX_CACHE_BYTES
    THEN LET old_node == c.tail
             d == Cache_detach_node_unlocked(c, old_node)
         IN Cache_remove_lru_node_keeps_key(
                [d EXCEPT !.current_size = @ - Len(d.nodes[old_node].data_ptr)],
                required_space)
    ELSE c

\* Mutant: eviction goes on until the list is empty.
RECURSIVE Cache_remove_lru_node_evicts_all(_, _)
Cache_remove_lru_node_evicts_all(c, required_space) ==
    IF c.tail # NULLP
    THEN LET old_node == c.tail
             d == Cache_detach_node_unlocked(c, old_node)
         IN Cache_remove_lru_node_evicts_all(
                [d EXCEPT !.current_size = @ - Len(d.nodes[old_node].data_ptr),
                          !.cache_map = MapErase(@, d.nodes[old_node].url)],
                required_space)
    ELSE c

RECURSIVE Cache_remove_lru_node_unlocked(_, _)
Cache_remove_lru_node_unlocked(c, required_space) ==
    IF c.tail # NULLP /\ c.current_size + required_space > MAX_CACHE_BYTES
    THEN LET old_node == c.tail
             d == Cache_detach_node_unlocked(c, old_node)
         IN Cache_remove_lru_node_unlocked(
                [d EXCEPT !.current_size = @ - Len(d.nodes[old_node].data_ptr),
                          !.cache_map = MapErase(@, d.nodes[old_node].url)],
                required_space)
    ELSE c

\* Mutant: the old head is not told its new predecessor.
Cache_push_front_no_backlink(c, node) ==
    LET n1 == [c.nodes EXCEPT ![node].next = c.head, ![node].prev = NULLP]
    IN IF c.head # NULLP
       THEN [c EXCEPT !.nodes = n1, !.head = node]
       ELSE [c EXCEPT !.nodes = n1, !.tail = node, !.head = node]

\* Link node in front of head (the code repeats these lines in both
\* branches of cache_add).
Cache_push_front(c, node) ==
    LET n1 == [c.nodes EXCEPT ![node].next = c.head, ![node].prev = NULLP]
    IN IF c.head # NULLP
       THEN [c EXCEPT !.nodes = [n1 EXCEPT ![c.head].prev = node],
                      !.head = node]
       ELSE [c EXCEPT !.nodes = n1, !.tail = node, !.head = node]

\* shared_ptr ownership: a node lives as long as head, tail, the map or
\* some node's next refers to it; the rest is destroyed when the locals of
\* the call go out of scope.
Cache_owned(c) ==
    ({c.head, c.tail} \cup Range(c.cache_map)
        \cup {c.nodes[n].next : n \in DOMAIN c.nodes}) \ {NULLP}

RECURSIVE Cache_release_unowned(_)
Cache_release_unowned(c) ==
    LET dead == (DOMAIN c.nodes) \ Cache_owned(c)
    IN IF dead = {} THEN c
       ELSE Cache_release_unowned(
                [c EXCEPT !.nodes = [n \in (DOMAIN c.nodes) \ dead |-> c.nodes[n]]])

\* Mutant: the replaced payload's length is not subtracted.
Cache_cache_add_existing_keeps_size(c, url, data) ==
    LET data_size == Len(data)
        existing_node == c.cache_map[url]
        c1 == Cache_detach_node_unlocked(c, existing_node)
        c3 == Cache_remove_lru_node_unlocked(c1, data_size)
        c4 == [c3 EXCEPT !.nodes[existing_node].data_ptr = data]
        c5 == Cache_push_front(c4, existing_node)
    IN [c5 EXCEPT !.current_size = @ + data_size]

Cache_cache_add_existing(c, url, data) ==
    LET data_size == Len(data)
        existing_node == c.cache_map[url]
        c1 == Cache_detach_node_unlocked(c, existing_node)
        c2 == [c1 EXCEPT !.current_size = @ - Len(c1.nodes[existing_node].data_ptr)]
        c3 == Cache_remove_lru_node_unlocked(c2, data_size)
        c4 == [c3 EXCEPT !.nodes[existing_node].data_ptr = data]
        c5 == Cache_push_front(c4, existing_node)
    IN [c5 EXCEPT !.current_size = @ + data_size]

Cache_cache_add_new(c, url, data) ==
    LET data_size == Len(data)
        new_node == NewNode(c.nodes, url)
        c1 == [c EXCEPT !.nodes = MapPut(@, new_node,
                   [data_ptr |-> data, url |-> url, next |-> NULLP, prev |-> NULLP])]
        c2 == Cache_remove_lru_node_unlocked(c1, data_size)
        c3 == Cache_push_front(c2, new_node)
    IN [c3 EXCEPT !.cache_map = MapPut(@, url, new_node),
                  !.current_size = @ + data_size]

\* cache_add in the two halves a thread runs it in: up to the point where
\* the node is out of the list (or not yet in it), and from there to the end.
Cache_cache_add_existing_begin(c, url, data) ==
    LET existing_node == c.cache_map[url]
        c1 == Cache_detach_node_unlocked(c, existing_node)
        c2 == [c1 EXCEPT !.current_size = @ - Len(c1.nodes[existing_node].data_ptr)]
        c3 == Cache_remove_lru_node_unlocked(c2, Len(data))
    IN [c3 EXCEPT !.nodes[existing_node].data_ptr = data]
Cache_cache_add_existing_end(c, node, data) ==
    [Cache_push_front(c, node) EXCEPT !.current_size = @ + Len(data)]
Cache_cache_add_new_begin(c, url, data) ==
    LET new_node == NewNode(c.nodes, url)
    IN Cache_remove_lru_node_unlocked(
           [c EXCEPT !.nodes = MapPut(@, new_node,
               [data_ptr |-> data, url |-> url, next |-> NULLP, prev |-> NULLP])],
           Len(data))
Cache_cache_add_new_end(c, url, node, data) ==
    [Cache_push_front(c, node) EXCEPT !.cache_map = MapPut(@, url, node),
                                      !.current_size = @ + Len(data)]

\* Mutant: the length of the payload is not checked.
Cache_admits_any_size(url, data) == ~(url = "" \/ data = <<>>)

\* The precondition check of cache_add, negated: the call goes ahead.
Cache_admits(url, data) ==
    ~(url = "" \/ data = <<>> \/ Len(data) > MAX_CACHE_BYTES)

Cache_cache_add(c, url, data) ==
    IF ~Cache_admits(url, data)
    THEN c
    ELSE Cache_release_unowned(
             IF url \in DOMAIN c.cache_map
             THEN Cache_cache_add_existing(c, url, data)
             ELSE Cache_cache_add_new(c, url, data))

\* Mutant: the vector is read from the head before the found node is
\* relinked there.
Cache_cache_find_reads_head(c, url) ==
    IF url = "" THEN [cache |-> c, ret |-> <<>>]
    ELSE IF url \notin DOMAIN c.cache_map THEN [cache |-> c, ret |-> <<>>]
    ELSE
      LET node == c.cache_map[url]
          c1 == IF node # c.head
                THEN LET d == Cache_detach_node_unlocked(c, node)
                         d1 == IF d.head = NULLP
                               THEN [d EXCEPT !.tail = node]
                               ELSE [d EXCEPT !.nodes[d.head].prev = node]
                     IN [d1 EXCEPT !.nodes[node].next = d.head,
                                   !.nodes[node].prev = NULLP,
                                   !.head = node]
                ELSE c
      IN [cache |-> c1, ret |-> c.nodes[c.head].data_ptr]

\* Mutant: a hit returns the vector and leaves the node where it is.
Cache_cache_find_no_promote(c, url) ==
    IF url = "" THEN [cache |-> c, ret |-> <<>>]
    ELSE IF url \notin DOMAIN c.cache_map THEN [cache |-> c, ret |-> <<>>]
    ELSE [cache |-> c, ret |-> c.nodes[c.cache_map[url]].data_ptr]

\* cache_find: the cache after the call and the vector returned.
Cache_cache_find(c, url) ==
    IF url = "" THEN [cache |-> c, ret |-> <<>>]
    ELSE IF url \notin DOMAIN c.cache_map THEN [cache |-> c, ret |-> <<>>]
    ELSE
      LET node == c.cache_map[url]
          c1 == IF node # c.head
                THEN LET d == Cache_detach_node_unlocked(c, node)
                         d1 == IF d.head = NULLP
                               THEN [d EXCEPT !.tail = node]
                               ELSE [d EXCEPT !.nodes[d.head].prev = node]
                     IN [d1 EXCEPT !.nodes[node].next = d.head,
                                   !.nodes[node].prev = NULLP,
                                   !.head = node]
                ELSE c
      IN [cache |-> c1, ret |-> c1.nodes[node].data_ptr]

(***************************************************************************)
(* C arguments that may be NULL: <<>> is the null pointer, <<v>> points    *)
(* to v.                                                                   *)
(***************************************************************************)
CNULL == <<>>
Ptr(v) == <<v>>
Deref(p) == p[1]

(***************************************************************************)
(* hashmap.c, as proxy_cache.c uses it: string keys, key_free = free,      *)
(* value_free = free_cache_element.  A map is a function from the keys to  *)
(* the stored values; buckets and chains are not observable.  The cache    *)
(* state g is [map, head, tail, current_size, elems]; elems is the heap    *)
(* of cache_element structs, address -> [url, data, len, next, prev].      *)
(***************************************************************************)
map_find(g, key) == IF key \in DOMAIN g.map THEN g.map[key] ELSE NULLP

\* free_cache_element: the data buffer and the struct are released.
free_cache_element(g, element) ==
    IF element = NULLP THEN g
    ELSE [g EXCEPT !.elems = MapErase(@, element)]

\* map_erase: unlink the entry, free the key, value_free the value.
map_erase(g, key) ==
    IF key \in DOMAIN g.map
    THEN free_cache_element([g EXCEPT !.map = MapErase(@, key)], g.map[key])
    ELSE g

\* map_insert: updates the value of a key that is present (freeing the old
\* value), else creates a map node; node_ok = FALSE is create_node's
\* malloc failing, after which the map is silently left as it was.
map_insert(g, key, value, node_ok) ==
    IF key \in DOMAIN g.map
    THEN [free_cache_element(g, g.map[key]) EXCEPT !.map = MapPut(@, key, value)]
    ELSE IF node_ok THEN [g EXCEPT !.map = MapPut(@, key, value)]
    ELSE g

(***************************************************************************)
(* proxy_cache.c                                                           *)
(***************************************************************************)
cache_init ==
    [map |-> <<>>, head |-> NULLP, tail |-> NULLP, current_size |-> 0,
     elems |-> <<>>]

detach_node_unlocked(g, element) ==
    IF element = NULLP THEN g
    ELSE
      LET e == g.elems[element]
          g1 == IF e.prev # NULLP
                THEN [g EXCEPT !.elems[e.prev].next = e.next]
                ELSE [g EXCEPT !.head = e.next]
      IN IF e.next # NULLP
         THEN [g1 EXCEPT !.elems[e.next].prev = e.prev]
         ELSE [g1 EXCEPT !.tail = e.prev]

attach_node_to_head_unlocked(g, element) ==
    IF element = NULLP THEN g
    ELSE
      LET g1 == [g EXCEPT !.elems[element].next = g.head,
                          !.elems[element].prev = NULLP]
          g2 == IF g.head # NULLP
                THEN [g1 EXCEPT !.elems[g.head].prev = element]
                ELSE g1
          g3 == [g2 EXCEPT !.head = element]
      IN IF g3.tail = NULLP THEN [g3 EXCEPT !.tail = element] ELSE g3

\* Mutant: the evicted element's length stays counted.
remove_lru_element_keeps_size(g) ==
    LET lru_element == g.tail
    IN IF lru_element = NULLP THEN g
       ELSE map_erase(detach_node_unlocked(g, lru_element),
                      g.elems[lru_element].url)

\* Mutant: an evicted element takes one byte off current_size, whatever
\* its length.
remove_lru_element_counts_one(g) ==
    LET lru_element == g.tail
    IN IF lru_element = NULLP THEN g
       ELSE LET g1 == detach_node_unlocked(g, lru_element)
                g2 == [g1 EXCEPT !.current_size = @ - 1]
            IN map_erase(g2, g2.elems[lru_element].url)

remove_lru_element_unlocked(g) ==
    LET lru_element == g.tail
    IN IF lru_element = NULLP THEN g
       ELSE LET g1 == detach_node_unlocked(g, lru_element)
                g2 == [g1 EXCEPT !.current_size = @ - g1.elems[lru_element].len]
            IN map_erase(g2, g2.elems[lru_element].url)

\* The eviction loop of cache_add,
\*   while (current_size + length > MAX_CACHE_SIZE) remove_lru_element_unlocked();
\* run to the point where it either exits or can make no more progress.
RECURSIVE cache_add_evict(_, _)
cache_add_evict(g, length) ==
    IF g.current_size + length > MAX_CACHE_SIZE /\ g.tail # NULLP
    THEN cache_add_evict(remove_lru_element_unlocked(g), length)
    ELSE g
\* The loop never exits: its condition still holds and the list is empty, so
\* remove_lru_element_unlocked returns at once, for ever.
cache_add_spins(g, length) ==
    LET r == cache_add_evict(g, length)
    IN r.current_size + length > MAX_CACHE_SIZE /\ r.tail = NULLP

\* Allocation outcomes of one cache_add call.
AllocFailures == {"none", "data", "element", "copies", "map_node"}

\* CASE 1 of cache_add: the key is present.
cache_add_update(g, url, data, length, fail) ==
    LET existing_element == map_find(g, url)
        g1 == detach_node_unlocked(g, existing_element)
        g2 == [g1 EXCEPT !.current_size = @ - g1.elems[existing_element].len]
        g3 == cache_add_evict(g2, length)
    IN IF cache_add_spins(g2, length) THEN g3
       ELSE IF fail = "data"
       THEN map_erase(g3, g3.elems[existing_element].url)
       ELSE attach_node_to_head_unlocked(
                [g3 EXCEPT !.elems[existing_element].data = SubSeq(data, 1, length),
                           !.elems[existing_element].len = length,
                           !.current_size = @ + length],
                existing_element)

\* CASE 2 of cache_add: the key is new.
cache_add_insert(g, url, data, length, fail) ==
    LET g1 == cache_add_evict(g, length)
        new_element == NewNode(g1.elems, url)
        g2 == [g1 EXCEPT !.elems = MapPut(@, new_element,
                   [url |-> url, data |-> SubSeq(data, 1, length), len |-> length,
                    next |-> NULLP, prev |-> NULLP])]
        g3 == attach_node_to_head_unlocked(g2, new_element)
        g4 == map_insert(g3, url, new_element, fail # "map_node")
    IN IF cache_add_spins(g, length) \/ fail \in {"element", "copies"} THEN g1
       ELSE [g4 EXCEPT !.current_size = @ + length]

\* cache_add in the two halves a thread runs it in, no allocation failing:
\* up to the point where the element is out of the list (or not yet in it),
\* and from there to the end.
cache_add_update_begin(g, url, data, length) ==
    LET existing_element == map_find(g, url)
        g1 == detach_node_unlocked(g, existing_element)
        g2 == [g1 EXCEPT !.current_size = @ - g1.elems[existing_element].len]
        g3 == cache_add_evict(g2, length)
    IN [g3 EXCEPT !.elems[existing_element].data = SubSeq(data, 1, length),
                  !.elems[existing_element].len = length]
cache_add_update_end(g, element, length) ==
    attach_node_to_head_unlocked([g EXCEPT !.current_size = @ + length], element)
cache_add_insert_begin(g, url, data, length) ==
    LET g1 == cache_add_evict(g, length)
        new_element == NewNode(g1.elems, url)
    IN [g1 EXCEPT !.elems = MapPut(@, new_element,
           [url |-> url, data |-> SubSeq(data, 1, length), len |-> length,
            next |-> NULLP, prev |-> NULLP])]
cache_add_insert_end(g, url, element, length) ==
    [map_insert(attach_node_to_head_unlocked(g, element), url, element, TRUE)
        EXCEPT !.current_size = @ + length]
\* The elements a cache_add of length bytes frees while it evicts.
cache_add_evicted(g, length) ==
    (DOMAIN g.elems) \ (DOMAIN cache_add_evict(g, length).elems)

\* The precondition check of cache_add, negated: the call goes ahead.
cache_admits(url, data, length) ==
    ~(url = CNULL \/ data = CNULL \/ length = 0 \/ length > MAX_CACHE_SIZE)

\* cache_add(url, data, length); url and data are pointers.
cache_add(g, url, data, length, fail) ==
    IF ~cache_admits(url, data, length)
    THEN g
    ELSE IF map_find(g, Deref(url)) # NULLP
         THEN cache_add_update(g, Deref(url), Deref(data), length, fail)
         ELSE cache_add_insert(g, Deref(url), Deref(data), length, fail)

\* The call never returns: one of its eviction loops spins.
cache_add_hangs(g, url, data, length) ==
    /\ cache_admits(url, data, length)
    /\ LET existing_element == map_find(g, Deref(url))
           g1 == detach_node_unlocked(g, existing_element)
       IN IF existing_element # NULLP
          THEN cache_add_spins(
                   [g1 EXCEPT !.current_size = @ - g1.elems[existing_element].len],
                   length)
          ELSE cache_add_spins(g, length)

\* Mutant: a hit returns the element and leaves it where it is.
cache_find_no_promote(g, url) ==
    IF url = CNULL THEN [cache |-> g, ret |-> NULLP]
    ELSE [cache |-> g, ret |-> map_find(g, Deref(url))]

\* Mutant: a miss evicts the least recently used element.
cache_find_evicts_on_miss(g, url) ==
    IF url = CNULL THEN [cache |-> g, ret |-> NULLP]
    ELSE LET element == map_find(g, Deref(url))
         IN IF element # NULLP
            THEN [cache |-> attach_node_to_head_unlocked(
                                detach_node_unlocked(g, element), element),
                  ret |-> element]
            ELSE [cache |-> remove_lru_element_unlocked(g), ret |-> NULLP]

\* cache_find(url): the cache after the call and the cache_element*
\* returned (NULLP on a miss).
cache_find(g, url) ==
    IF url = CNULL THEN [cache |-> g, ret |-> NULLP]
    ELSE LET element == map_find(g, Deref(url))
         IN IF element # NULLP
            THEN [cache |-> attach_node_to_head_unlocked(
                                detach_node_unlocked(g, element), element),
                  ret |-> element]
            ELSE [cache |-> g, ret |-> NULLP]

(***************************************************************************)
(* What both variants expose: the keys of the map, the recency list from   *)
(* head to tail, the payload stored under a key, the byte count.           *)
(***************************************************************************)
Keys == IF impl = "cpp" THEN DOMAIN cache_system.cache_map ELSE DOMAIN g_cache.map
Heap == IF impl = "cpp" THEN cache_system.nodes ELSE g_cache.elems
ListHead == IF impl = "cpp" THEN cache_system.head ELSE g_cache.head
ListTail == IF impl = "cpp" THEN cache_system.tail ELSE g_cache.tail
CurrentSize == IF impl = "cpp" THEN cache_system.current_size ELSE g_cache.current_size
Capacity == IF impl = "cpp" THEN MAX_CACHE_BYTES ELSE MAX_CACHE_SIZE
NodeOf(u) == IF impl = "cpp" THEN cache_system.cache_map[u] ELSE g_cache.map[u]
NodeData(n) == IF impl = "cpp" THEN cache_system.nodes[n].data_ptr
               ELSE g_cache.elems[n].data
NodeLen(n) == IF impl = "cpp" THEN Len(cache_system.nodes[n].data_ptr)
              ELSE g_cache.elems[n].len
PayloadOf(u) == NodeData(NodeOf(u))

\* The nodes met following next from head, at most Cardinality(NodeIds) of
\* them (a walk that runs into a cycle or a freed node stops).
RECURSIVE Walk(_, _, _)
Walk(heap, n, fuel) ==
    IF n = NULLP \/ n \notin DOMAIN heap \/ fuel = 0 THEN <<>>
    ELSE <<n>> \o Walk(heap, heap[n].next, fuel - 1)
ListNodes == Walk(Heap, ListHead, Cardinality(NodeIds))
ListUrls == LET nodes == ListNodes
            IN [i \in DOMAIN nodes |-> Heap[nodes[i]].url]

RECURSIVE SumLen(_)
SumLen(S) == IF S = {} THEN 0
             ELSE LET u == CHOOSE x \in S : TRUE
                  IN NodeLen(NodeOf(u)) + SumLen(S \ {u})

\* Position of x in sequence s (0 when absent).
Pos(s, x) == IF \E i \in DOMAIN s : s[i] = x
             THEN CHOOSE i \in DOMAIN s : s[i] = x ELSE 0

(***************************************************************************)
(* The cache as its callers use it: one action per public call, taken      *)
(* under the cache mutex from its first to its last statement.             *)
(***************************************************************************)
\* call.ok: the arguments of a put were a non-empty URL and a payload of
\* 1 .. capacity bytes; call.existed: the key was resident when the put
\* began; call.big: the payload of the put was longer than the capacity;
\* call.evicted: how many keys the put removed; call.hit, call.ret: what a
\* get found and returned.
NoCall == [op |-> "none", url |-> "", ok |-> FALSE, existed |-> FALSE, big |-> FALSE,
           evicted |-> 0, hit |-> FALSE, ret |-> <<>>]
Admissible(u, data) == u # "" /\ data # <<>> /\ Len(data) <= Capacity

CacheInit ==
    /\ impl \in {"cpp", "c"}
    /\ cache_system = Cache_Cache
    /\ g_cache = cache_init
    /\ call = NoCall
    /\ stored = <<>>
    /\ recent = <<>>
    /\ hung = FALSE
    /\ mutex = 0
    /\ th = <<>>
    /\ lin = Cache_Cache
    /\ permits = 0
    /\ hs = <<>>
    /\ acceptor = <<>> /\ g_is_server_running = TRUE /\ fw = <<>>

\* History of one put that the code let through: u is accessed and now
\* holds data; what left the map is forgotten.
AfterAdd(u, data, admitted, keys) ==
    /\ stored' = IF admitted
                 THEN [x \in ((DOMAIN stored) \cup {u}) \cap keys |->
                          IF x = u THEN data ELSE stored[x]]
                 ELSE stored
    /\ recent' = IF admitted
                 THEN SelectSeq(<<u>> \o SeqWithout(recent, u), LAMBDA x : x \in keys)
                 ELSE recent
\* History of one get: a hit is an access.
AfterFind(u, hit) ==
    /\ stored' = stored
    /\ recent' = IF hit THEN <<u>> \o SeqWithout(recent, u) ELSE recent

CppCacheAdd(url, data) ==
    /\ impl = "cpp" /\ ~hung
    /\ cache_system' = Cache_cache_add(cache_system, url, data)
    /\ call' = [op |-> "add", url |-> url, ok |-> Admissible(url, data),
                existed |-> url \in DOMAIN cache_system.cache_map,
                big |-> Len(data) > MAX_CACHE_BYTES,
                evicted |-> Cardinality((DOMAIN cache_system.cache_map)
                                            \ (DOMAIN cache_system'.cache_map)),
                hit |-> FALSE, ret |-> <<>>]
    /\ AfterAdd(url, data, Cache_admits(url, data), DOMAIN cache_system'.cache_map)
    /\ UNCHANGED <<impl, g_cache, hung, concVars, handlerVars, serverVars, relayVars>>

CppCacheFind(url) ==
    /\ impl = "cpp" /\ ~hung
    /\ LET r == Cache_cache_find(cache_system, url)
       IN /\ cache_system' = r.cache
          /\ call' = [op |-> "find", url |-> url, ok |-> FALSE, existed |-> FALSE,
                      big |-> FALSE,
                      evicted |-> 0, hit |-> (r.ret # <<>>), ret |-> r.ret]
          /\ AfterFind(url, r.ret # <<>>)
    /\ UNCHANGED <<impl, g_cache, hung, concVars, handlerVars, serverVars, relayVars>>

\* The (data, length) pairs C callers pass: a buffer with its length, or NULL.
CBuffers == {<<Ptr(p), Len(p)>> : p \in Payloads} \cup {<<CNULL, n>> : n \in 0..1}
CUrls == {Ptr(u) : u \in Urls} \cup {CNULL}
UrlStr(p) == IF p = CNULL THEN "" ELSE Deref(p)
BufSeq(p, n) == IF p = CNULL THEN <<>> ELSE SubSeq(Deref(p), 1, n)

CCacheAdd(url, buf) ==
    /\ impl = "c" /\ ~hung
    /\ LET data == buf[1]
           length == buf[2]
           adm == cache_admits(url, data, length)
       IN /\ g_cache' = cache_add(g_cache, url, data, length, "none")
          /\ hung' = cache_add_hangs(g_cache, url, data, length)
          /\ call' = [op |-> "add", url |-> UrlStr(url),
                      ok |-> url # CNULL /\ data # CNULL
                             /\ Admissible(UrlStr(url), BufSeq(data, length)),
                      existed |-> url # CNULL /\ UrlStr(url) \in DOMAIN g_cache.map,
                      big |-> length > MAX_CACHE_SIZE,
                      evicted |-> Cardinality((DOMAIN g_cache.map)
                                                  \ (DOMAIN g_cache'.map)),
                      hit |-> FALSE, ret |-> <<>>]
          /\ AfterAdd(UrlStr(url), BufSeq(data, length), adm, DOMAIN g_cache'.map)
    /\ UNCHANGED <<impl, cache_system, concVars, handlerVars, serverVars, relayVars>>

\* The caller reads data[0 .. len) through the pointer it gets back.
CCacheFind(url) ==
    /\ impl = "c" /\ ~hung
    /\ LET r == cache_find(g_cache, url)
       IN /\ g_cache' = r.cache
          /\ call' = [op |-> "find", url |-> UrlStr(url), ok |-> FALSE,
                      existed |-> FALSE, big |-> FALSE, evicted |-> 0,
                      hit |-> (r.ret # NULLP),
                      ret |-> IF r.ret = NULLP THEN <<>>
                              ELSE SubSeq(r.cache.elems[r.ret].data, 1,
                                          r.cache.elems[r.ret].len)]
          /\ AfterFind(UrlStr(url), r.ret # NULLP)
    /\ UNCHANGED <<impl, cache_system, hung, concVars, handlerVars, serverVars, relayVars>>

CacheNext ==
    \/ \E url \in Urls, data \in Payloads : CppCacheAdd(url, data)
    \/ \E url \in Urls : CppCacheFind(url)
    \/ \E url \in CUrls, buf \in CBuffers : CCacheAdd(url, buf)
    \/ \E url \in CUrls : CCacheFind(url)


(***************************************************************************)
(* Handler threads on the shared cache.  Each thread serves one request    *)
(* (proxy_handler.cpp:368-522, proxy_handler.c:459-660): it looks the URL  *)
(* up; on a hit it sends what it got to its client, on a miss it reads the *)
(* origin's response and stores it.  cache_find and cache_add take the     *)
(* cache mutex; cache_add runs its critical section in two steps.          *)
(***************************************************************************)
NumThreads == 2
NumConcUrls == 2
Threads == 1..NumThreads
ConcUrls == {UrlNames[i] : i \in 1..NumConcUrls}
\* A small response and one that fills the cache but for one byte.
ConcPayloads == {Fill(2, 1), Fill(1, MAX_CACHE_BYTES - 1)}
\* A read through a dangling pointer: any bytes, or a fault.
Fault == <<0>>
Garbage == ConcPayloads \cup {Fault}

\* Mutant: the lock is handed out while another thread holds it.
MutexNeverWaits(m) == m \in Nat
\* std::lock_guard / EnterCriticalSection / pthread_mutex_lock returns.
MutexAcquirable(m) == m = 0

ConcCache == IF impl = "cpp" THEN cache_system ELSE g_cache

\* The calls as single steps, on whichever cache the variant has.
AtomicFind(c, url) ==
    IF impl = "cpp" THEN Cache_cache_find(c, url)
    ELSE LET r == cache_find(c, Ptr(url))
         IN [cache |-> r.cache,
             ret |-> IF r.ret = NULLP THEN <<>> ELSE r.cache.elems[r.ret].data]
AtomicAdd(c, url, data) ==
    IF impl = "cpp" THEN Cache_cache_add(c, url, data)
    ELSE cache_add(c, Ptr(url), Ptr(data), Len(data), "none")

ThreadStart == [pc |-> "start", url |-> "", data |-> <<>>, node |-> NULLP,
                exp |-> <<>>, found |-> <<>>, sent |-> <<>>, stale |-> FALSE]

\* Caches that earlier requests can have left: up to two stores.
ConcSeeds ==
    LET E == IF impl = "cpp" THEN Cache_Cache ELSE cache_init
        One == {AtomicAdd(E, u, d) : u \in ConcUrls, d \in ConcPayloads}
    IN {E} \cup One
          \cup UNION {{AtomicAdd(c, u, d) : u \in ConcUrls, d \in ConcPayloads} : c \in One}

ConcInit ==
    /\ impl \in {"cpp", "c"}
    /\ call = NoCall /\ stored = <<>> /\ recent = <<>> /\ hung = FALSE
    /\ mutex = 0
    /\ th = [t \in Threads |-> ThreadStart]
    /\ permits = 0
    /\ hs = <<>>
    /\ acceptor = <<>> /\ g_is_server_running = TRUE /\ fw = <<>>
    /\ \E c \in ConcSeeds :
          /\ lin = c
          /\ cache_system = IF impl = "cpp" THEN c ELSE Cache_Cache
          /\ g_cache = IF impl = "c" THEN c ELSE cache_init

\* The request is parsed; its URL is the cache key.
Request(t, u) ==
    /\ th[t].pc = "start"
    /\ th' = [th EXCEPT ![t].pc = "find", ![t].url = u]
    /\ UNCHANGED <<cache_system, g_cache, mutex, lin, histVars, handlerVars, serverVars, relayVars>>

\* cache_find takes the mutex.
FindLock(t) ==
    /\ th[t].pc = "find"
    /\ MutexAcquirable(mutex)
    /\ mutex' = t
    /\ lin' = AtomicFind(lin, th[t].url).cache
    /\ th' = [th EXCEPT ![t].pc = "find_cs", ![t].exp = AtomicFind(lin, th[t].url).ret]
    /\ UNCHANGED <<cache_system, g_cache, histVars, handlerVars, serverVars, relayVars>>

\* cache_find looks up, relinks, unlocks and returns: Cache::cache_find a
\* copy of the vector, C cache_find the element's address.
FindBody(t) ==
    /\ th[t].pc = "find_cs"
    /\ mutex' = 0
    /\ IF impl = "cpp"
       THEN LET r == Cache_cache_find(cache_system, th[t].url)
            IN /\ cache_system' = r.cache
               /\ th' = [th EXCEPT ![t].pc = IF r.ret # <<>> THEN "send" ELSE "fetch",
                                   ![t].found = r.ret]
               /\ UNCHANGED g_cache
       ELSE LET r == cache_find(g_cache, Ptr(th[t].url))
            IN /\ g_cache' = r.cache
               /\ th' = [th EXCEPT ![t].pc = IF r.ret # NULLP THEN "send" ELSE "fetch",
                                   ![t].node = r.ret,
                                   ![t].found = IF r.ret = NULLP THEN <<>>
                                                ELSE r.cache.elems[r.ret].data]
               /\ UNCHANGED cache_system
    /\ UNCHANGED <<lin, histVars, handlerVars, serverVars, relayVars>>

\* send(client_socket, ...) of the cached response, the mutex not held.
\* The C++ handler sends its own vector.  The C handler reads
\* cached_response->data and ->len through the pointer cache_find gave
\* it: if the element or its buffer was freed meanwhile, the read is of
\* released memory.
Send(t, junk) ==
    /\ th[t].pc = "send"
    /\ th' = [th EXCEPT ![t].pc = "done",
                        ![t].sent = IF impl = "cpp" THEN th[t].found
                                    ELSE IF th[t].stale THEN junk
                                    ELSE g_cache.elems[th[t].node].data]
    /\ (impl = "cpp" \/ ~th[t].stale) => junk = Fault
    /\ UNCHANGED <<cache_system, g_cache, mutex, lin, histVars, handlerVars, serverVars, relayVars>>

\* The origin's response has been relayed and collected.
Fetch(t, d) ==
    /\ th[t].pc = "fetch"
    /\ th' = [th EXCEPT ![t].pc = "add", ![t].data = d]
    /\ UNCHANGED <<cache_system, g_cache, mutex, lin, histVars, handlerVars, serverVars, relayVars>>

\* cache_add checks its arguments and takes the mutex.
AddLock(t) ==
    /\ th[t].pc = "add"
    /\ IF impl = "cpp" THEN Cache_admits(th[t].url, th[t].data)
       ELSE cache_admits(Ptr(th[t].url), Ptr(th[t].data), Len(th[t].data))
    /\ MutexAcquirable(mutex)
    /\ mutex' = t
    /\ lin' = AtomicAdd(lin, th[t].url, th[t].data)
    /\ th' = [th EXCEPT ![t].pc = "add_cs"]
    /\ UNCHANGED <<cache_system, g_cache, histVars, handlerVars, serverVars, relayVars>>

\* The pointers that the first half of a C cache_add leaves dangling: the
\* evicted elements, and the element whose data buffer it frees and
\* replaces.
Freed(g, url, length) ==
    IF map_find(g, url) # NULLP
    THEN {map_find(g, url)}
            \cup cache_add_evicted(
                    [detach_node_unlocked(g, map_find(g, url))
                        EXCEPT !.current_size = @ - g.elems[map_find(g, url)].len],
                    length)
    ELSE cache_add_evicted(g, length)

\* First half of the critical section of cache_add: the node is unlinked
\* (or created), room is made, the payload is in the node.
AddBegin(t) ==
    /\ th[t].pc = "add_cs"
    /\ LET url == th[t].url
           data == th[t].data
       IN IF impl = "cpp"
          THEN /\ cache_system' =
                    IF url \in DOMAIN cache_system.cache_map
                    THEN Cache_cache_add_existing_begin(cache_system, url, data)
                    ELSE Cache_cache_add_new_begin(cache_system, url, data)
               /\ th' = [th EXCEPT ![t].pc = "add_cs2",
                            ![t].node = IF url \in DOMAIN cache_system.cache_map
                                        THEN cache_system.cache_map[url]
                                        ELSE NewNode(cache_system.nodes, url)]
               /\ UNCHANGED g_cache
          ELSE /\ g_cache' =
                    IF map_find(g_cache, url) # NULLP
                    THEN cache_add_update_begin(g_cache, url, data, Len(data))
                    ELSE cache_add_insert_begin(g_cache, url, data, Len(data))
               /\ th' = [x \in Threads |->
                           IF x = t
                           THEN [th[t] EXCEPT !.pc = "add_cs2",
                                    !.node = IF map_find(g_cache, url) # NULLP
                                             THEN map_find(g_cache, url)
                                             ELSE NewNode(cache_add_evict(g_cache, Len(data)).elems, url)]
                           ELSE IF th[x].pc = "send"
                                   /\ th[x].node \in Freed(g_cache, url, Len(data))
                                THEN [th[x] EXCEPT !.stale = TRUE]
                                ELSE th[x]]
               /\ UNCHANGED cache_system
    /\ UNCHANGED <<mutex, lin, histVars, handlerVars, serverVars, relayVars>>

\* Second half: the node goes to the head of the list, the map and the
\* byte count are brought up to date, the mutex is released.
AddEnd(t) ==
    /\ th[t].pc = "add_cs2"
    /\ mutex' = 0
    /\ LET url == th[t].url
           data == th[t].data
           node == th[t].node
       IN IF impl = "cpp"
          THEN /\ cache_system' = Cache_release_unowned(
                    IF url \in DOMAIN cache_system.cache_map
                    THEN Cache_cache_add_existing_end(cache_system, node, data)
                    ELSE Cache_cache_add_new_end(cache_system, url, node, data))
               /\ UNCHANGED g_cache
          ELSE /\ g_cache' =
                    IF map_find(g_cache, url) # NULLP
                    THEN cache_add_update_end(g_cache, node, Len(data))
                    ELSE cache_add_insert_end(g_cache, url, node, Len(data))
               /\ UNCHANGED cache_system
    /\ th' = [th EXCEPT ![t].pc = "done"]
    /\ UNCHANGED <<lin, histVars, handlerVars, serverVars, relayVars>>

ConcNext ==
    \/ \E t \in Threads, u \in ConcUrls : Request(t, u)
    \/ \E t \in Threads : FindLock(t)
    \/ \E t \in Threads : FindBody(t)
    \/ \E t \in Threads, junk \in Garbage : Send(t, junk)
    \/ \E t \in Threads, d \in ConcPayloads : Fetch(t, d)
    \/ \E t \in Threads : AddLock(t)
    \/ \E t \in Threads : AddBegin(t)
    \/ \E t \in Threads : AddEnd(t)


(***************************************************************************)
(* The handler of one accepted connection and the admission semaphore.     *)
(* proxy_handler.cpp: ProxyHandler::handleClient; proxy_handler.c:         *)
(* handle_client.  What the sockets deliver is the environment's choice.   *)
(***************************************************************************)
NumHandlers == 2
\* Receive calls after which the header loop gives up (MAX_HEADER_SIZE over
\* HTTP_RECV_BUFFER_SIZE; MAX_BYTES - 1 in the C variant).
MaxHeaderRecvs == 2
\* proxy_main.cpp: MAX_CONNECTIONS (2000), proxy_main.c: MAX_CLIENTS (100);
\* both scaled down to two permits.
MAX_CONNECTIONS == 2
MAX_CLIENTS == 2
Handlers == 1..NumHandlers
MaxPermits == IF impl = "cpp" THEN MAX_CONNECTIONS ELSE MAX_CLIENTS

HandlerIdle == [pc |-> "idle", path |-> "none", released |-> 0, hdr |-> 0,
                complete |-> FALSE]

\* Mutant: a release that gives no permit back.
sem_release_lost(count) == count
\* std::counting_semaphore::release() / ReleaseSemaphore(semaphore, 1, NULL).
sem_release(count) == count + 1

\* Mutant: the function returns and the permit is not given back.
handler_return_keeps_permit(rec, path) ==
    [rec EXCEPT !.pc = "returned", !.path = path]
\* The function returns.  handleClient: ~SocketGuard, then
\* ~SemaphoreGuard releases.  handle_client: closesocket,
\* ReleaseSemaphore, return 0.
handler_return(rec, path) ==
    [rec EXCEPT !.pc = "returned", !.path = path, !.released = @ + 1]

Return(h, path) ==
    /\ hs' = [hs EXCEPT ![h] = handler_return(@, path)]
    /\ permits' = IF handler_return(hs[h], path).released > hs[h].released
                  THEN sem_release(permits) ELSE permits
\* handle_client leaves its if/else nest and reaches the common cleanup at
\* the end of the function; handleClient returns on the spot.
Leave(h, path) ==
    IF impl = "cpp" THEN Return(h, path)
    ELSE /\ hs' = [hs EXCEPT ![h].pc = "cleanup", ![h].path = path]
         /\ UNCHANGED permits

HandlerInit ==
    /\ impl \in {"cpp", "c"}
    /\ cache_system = Cache_Cache /\ g_cache = cache_init
    /\ call = NoCall /\ stored = <<>> /\ recent = <<>> /\ hung = FALSE
    /\ mutex = 0 /\ th = <<>> /\ lin = Cache_Cache
    /\ permits = MaxPermits
    /\ hs = [h \in Handlers |-> HandlerIdle]
    /\ acceptor = <<>> /\ g_is_server_running = TRUE /\ fw = <<>>

\* The accept loop takes a permit, accepts a client and starts the thread.
Dispatch(h) ==
    /\ hs[h].pc \in {"idle", "returned"}
    /\ permits > 0
    /\ permits' = permits - 1
    /\ hs' = [hs EXCEPT ![h] = [HandlerIdle EXCEPT !.pc = "entry"]]
    /\ UNCHANGED <<cacheVars, concVars, serverVars, relayVars>>

\* The request buffer is allocated (C) and the first recv returns.
FirstRecv(h, r) ==
    /\ hs[h].pc = "entry"
    /\ CASE r = "nomem" -> impl = "c" /\ Return(h, "nomem")
         [] r = "closed" -> Return(h, "disconnect")
         [] r = "connect" -> /\ hs' = [hs EXCEPT ![h].pc = "connect_parse"]
                             /\ UNCHANGED permits
         [] r \in {"get", "get_partial"} ->
               /\ hs' = [hs EXCEPT ![h].pc = "headers", ![h].hdr = 1,
                                   ![h].complete = (r = "get")]
               /\ UNCHANGED permits
         [] r = "other" ->
               IF impl = "cpp" THEN Return(h, "unsupported")
               ELSE /\ hs' = [hs EXCEPT ![h].pc = "headers", ![h].hdr = 1,
                                        ![h].complete = TRUE]
                    /\ UNCHANGED permits
    /\ UNCHANGED <<cacheVars, concVars, serverVars, relayVars>>

\* CONNECT: the target is parsed.
ConnectParse(h, ok) ==
    /\ hs[h].pc = "connect_parse"
    /\ IF ok THEN hs' = [hs EXCEPT ![h].pc = "connect_dial"] /\ UNCHANGED permits
       ELSE Leave(h, "malformed")
    /\ UNCHANGED <<cacheVars, concVars, serverVars, relayVars>>

\* CONNECT: the origin is dialled; on success 200 goes to the client.
ConnectDial(h, ok) ==
    /\ hs[h].pc = "connect_dial"
    /\ IF ok THEN hs' = [hs EXCEPT ![h].pc = "tunnel"] /\ UNCHANGED permits
       ELSE Leave(h, "connect_failed")
    /\ UNCHANGED <<cacheVars, concVars, serverVars, relayVars>>

\* One round of the tunnel's select loop.
Tunnel(h, ev) ==
    /\ hs[h].pc = "tunnel"
    /\ CASE ev = "data" -> UNCHANGED <<hs, permits>>
         [] ev \in {"select_error", "timeout", "peer_closed"} -> Leave(h, "tunnel_closed")
         [] ev = "send_error" -> Leave(h, "tunnel_send_error")
    /\ UNCHANGED <<cacheVars, concVars, serverVars, relayVars>>

\* The header loop: one more recv, or giving up.
Headers(h, r) ==
    /\ hs[h].pc = "headers" /\ ~hs[h].complete
    /\ IF hs[h].hdr >= MaxHeaderRecvs
       THEN IF impl = "cpp" THEN Return(h, "header_overflow")
            ELSE /\ hs' = [hs EXCEPT ![h].pc = "target"]
                 /\ UNCHANGED permits
       ELSE CASE r = "closed" -> Return(h, "header_disconnect")
              [] r = "more" -> /\ hs' = [hs EXCEPT ![h].hdr = @ + 1]
                               /\ UNCHANGED permits
              [] r = "rest" -> /\ hs' = [hs EXCEPT ![h].hdr = @ + 1,
                                                   ![h].complete = TRUE]
                               /\ UNCHANGED permits
    /\ UNCHANGED <<cacheVars, concVars, serverVars, relayVars>>

\* The header is complete.
HeadersDone(h) ==
    /\ hs[h].pc = "headers" /\ hs[h].complete
    /\ hs' = [hs EXCEPT ![h].pc = "target"]
    /\ UNCHANGED <<permits, cacheVars, concVars, serverVars, relayVars>>

\* The request target is taken from the request line.
Target(h, ok) ==
    /\ hs[h].pc = "target"
    /\ IF ok THEN hs' = [hs EXCEPT ![h].pc = "cache"] /\ UNCHANGED permits
       ELSE Leave(h, "malformed")
    /\ UNCHANGED <<cacheVars, concVars, serverVars, relayVars>>

\* The cache is asked; a hit is sent to the client.
CacheProbe(h, hit) ==
    /\ hs[h].pc = "cache"
    /\ IF hit THEN Leave(h, "cache_hit")
       ELSE hs' = [hs EXCEPT ![h].pc = "origin_dial"] /\ UNCHANGED permits
    /\ UNCHANGED <<cacheVars, concVars, serverVars, relayVars>>

\* The URL is split and the origin dialled.
OriginDial(h, r) ==
    /\ hs[h].pc = "origin_dial"
    /\ CASE r = "bad_url" -> Leave(h, "bad_url")
         [] r = "refused" -> Leave(h, "connect_failed")
         [] r = "ok" -> hs' = [hs EXCEPT ![h].pc = "origin_send"] /\ UNCHANGED permits
    /\ UNCHANGED <<cacheVars, concVars, serverVars, relayVars>>

\* The rebuilt request goes to the origin.
OriginSend(h, ok) ==
    /\ hs[h].pc = "origin_send"
    /\ IF ok THEN hs' = [hs EXCEPT ![h].pc = "relay"] /\ UNCHANGED permits
       ELSE Leave(h, "origin_send_error")
    /\ UNCHANGED <<cacheVars, concVars, serverVars, relayVars>>

\* One round of the response loop; at its end the response is cached.
Relay(h, ev) ==
    /\ hs[h].pc = "relay"
    /\ CASE ev = "data" -> UNCHANGED <<hs, permits>>
         [] ev = "eof" -> Leave(h, "complete")
         [] ev = "send_error" -> Leave(h, "client_send_error")
    /\ UNCHANGED <<cacheVars, concVars, serverVars, relayVars>>

\* handle_client: free(buffer), closesocket, ReleaseSemaphore, return 0.
Cleanup(h) ==
    /\ hs[h].pc = "cleanup"
    /\ Return(h, hs[h].path)
    /\ UNCHANGED <<cacheVars, concVars, serverVars, relayVars>>

HandlerNext ==
    \/ \E h \in Handlers : Dispatch(h)
    \/ \E h \in Handlers, r \in {"nomem", "closed", "connect", "get", "get_partial", "other"} :
          FirstRecv(h, r)
    \/ \E h \in Handlers, ok \in BOOLEAN : ConnectParse(h, ok)
    \/ \E h \in Handlers, ok \in BOOLEAN : ConnectDial(h, ok)
    \/ \E h \in Handlers, ev \in {"data", "select_error", "timeout", "peer_closed", "send_error"} :
          Tunnel(h, ev)
    \/ \E h \in Handlers, r \in {"closed", "more", "rest"} : Headers(h, r)
    \/ \E h \in Handlers : HeadersDone(h)
    \/ \E h \in Handlers, ok \in BOOLEAN : Target(h, ok)
    \/ \E h \in Handlers, hit \in BOOLEAN : CacheProbe(h, hit)
    \/ \E h \in Handlers, r \in {"bad_url", "refused", "ok"} : OriginDial(h, r)
    \/ \E h \in Handlers, ok \in BOOLEAN : OriginSend(h, ok)
    \/ \E h \in Handlers, ev \in {"data", "eof", "send_error"} : Relay(h, ev)
    \/ \E h \in Handlers : Cleanup(h)

(***************************************************************************)
(* The accept loop of main, the handler threads it starts, the admission   *)
(* semaphore and the cache mutex.  proxy_main.cpp: main, console_handler;  *)
(* proxy_main.c: main.  A handler is followed from one blocking point to   *)
(* the next: socket I/O, the cache mutex, its return.                      *)
(***************************************************************************)
\* Mutant: the drain loop stops one permit short.
DrainCountShort == MAX_CONNECTIONS - 1
\* for (int i = 0; i < MAX_CONNECTIONS; ++i) connection_semaphore.acquire();
DrainCount == MAX_CONNECTIONS

\* Mutant: the critical section is left with the mutex still held.
MutexKept(m) == m
\* ~lock_guard / LeaveCriticalSection / pthread_mutex_unlock.
MutexReleased(m) == 0

\* Handlers whose thread has been started and has not released its permit.
Running == {h \in Handlers : hs[h].pc \notin {"idle", "returned"}}

\* Mutant: the accept loop never sees the cleared flag.
LoopExit_never(running) == FALSE
\* while (g_is_server_running) and the two if (!g_is_server_running) tests.
LoopExit(running) == ~running

\* Mutant: a failure path forgets the accepted client socket.
closesocket_client_skipped(sock) == sock
\* closesocket(client_socket) of the accept loop: the acceptor owns no
\* open client socket afterwards.
closesocket_client(sock) == 0

\* held: the acceptor owns a permit; sock: it owns an accepted client
\* socket; last: how the previous iteration ended.
AcceptorStart == [pc |-> IF impl = "cpp" THEN "loop" ELSE "accept",
                  held |-> 0, drained |-> 0, inflight |-> 0,
                  sock |-> 0, last |-> "none"]

ServerInit ==
    /\ impl \in {"cpp", "c"}
    /\ cache_system = Cache_Cache /\ g_cache = cache_init
    /\ call = NoCall /\ stored = <<>> /\ recent = <<>> /\ hung = FALSE
    /\ mutex = 0 /\ th = <<>> /\ lin = Cache_Cache
    /\ permits = MaxPermits
    /\ hs = [h \in Handlers |-> HandlerIdle]
    /\ acceptor = AcceptorStart
    /\ g_is_server_running = TRUE
    /\ fw = <<>>

\* console_handler: a console event clears the flag and closes the listen
\* socket.  The C variant installs no handler.  inflight remembers how many
\* handlers were running at that moment.
Shutdown ==
    /\ impl = "cpp" /\ g_is_server_running
    /\ g_is_server_running' = FALSE
    /\ acceptor' = [acceptor EXCEPT !.inflight = Cardinality(Running)]
    /\ UNCHANGED <<cacheVars, concVars, handlerVars, relayVars>>

\* while (g_is_server_running): the flag is read.
LoopTest ==
    /\ impl = "cpp" /\ acceptor.pc = "loop"
    /\ acceptor' = [acceptor EXCEPT !.pc = IF LoopExit(g_is_server_running) THEN "drain" ELSE "acquire"]
    /\ UNCHANGED <<g_is_server_running, cacheVars, concVars, handlerVars, relayVars>>

\* connection_semaphore.acquire() at the top of the loop;
\* WaitForSingleObject(semaphore, INFINITE) after accept in the C variant.
Acquire ==
    /\ acceptor.pc = IF impl = "cpp" THEN "acquire" ELSE "wait"
    /\ permits > 0
    /\ permits' = permits - 1
    /\ acceptor' = [acceptor EXCEPT !.held = 1,
                                    !.pc = IF impl = "cpp" THEN "accept" ELSE "start"]
    /\ UNCHANGED <<hs, g_is_server_running, cacheVars, concVars, relayVars>>

\* accept returns a client socket or INVALID_SOCKET.  After a failed accept
\* the C++ loop releases its permit and goes on, or leaves when the flag is
\* cleared; the C loop has no permit yet and goes on.
Accept(ok) ==
    /\ acceptor.pc = "accept"
    /\ IF impl = "cpp"
       THEN IF ok
            THEN /\ acceptor' = [acceptor EXCEPT !.pc = "accepted", !.sock = 1]
                 /\ UNCHANGED permits
            ELSE /\ permits' = sem_release(permits)
                 /\ acceptor' = [acceptor EXCEPT !.held = 0, !.last = "accept_failed",
                                     !.pc = IF LoopExit(g_is_server_running) THEN "drain" ELSE "loop"]
       ELSE /\ acceptor' = IF ok THEN [acceptor EXCEPT !.pc = "wait", !.sock = 1]
                                 ELSE [acceptor EXCEPT !.last = "accept_failed"]
            /\ UNCHANGED permits
    /\ UNCHANGED <<hs, g_is_server_running, cacheVars, concVars, relayVars>>

\* A client is in hand.  proxy_main.cpp: if the flag was cleared meanwhile
\* the client is closed, the permit released and the loop left.  Otherwise
\* std::thread(...).detach() / malloc and CreateThread: the handler thread
\* starts with the permit, or the start fails, the client is closed and
\* the permit released.
StartThread(h, ok) ==
    /\ acceptor.pc = IF impl = "cpp" THEN "accepted" ELSE "start"
    /\ hs[h].pc \in {"idle", "returned"}
    /\ IF impl = "cpp" /\ LoopExit(g_is_server_running)
       THEN /\ permits' = sem_release(permits)
            /\ acceptor' = [acceptor EXCEPT !.held = 0, !.pc = "drain", !.last = "late",
                                    !.sock = closesocket_client(@)]
            /\ UNCHANGED hs
       ELSE IF ok
            THEN /\ hs' = [hs EXCEPT ![h] = [HandlerIdle EXCEPT !.pc = "entry"]]
                 /\ acceptor' = [acceptor EXCEPT !.held = 0, !.sock = 0, !.last = "started",
                                         !.pc = IF impl = "cpp" THEN "loop" ELSE "accept"]
                 /\ UNCHANGED permits
            ELSE /\ permits' = sem_release(permits)
                 /\ acceptor' = [acceptor EXCEPT !.held = 0, !.last = "start_failed",
                                         !.sock = closesocket_client(@),
                                         !.pc = IF impl = "cpp" THEN "loop" ELSE "accept"]
                 /\ UNCHANGED hs
    /\ UNCHANGED <<g_is_server_running, cacheVars, concVars, relayVars>>

\* The drain loop takes one more permit.
Drain ==
    /\ impl = "cpp" /\ acceptor.pc = "drain"
    /\ acceptor.drained < DrainCount
    /\ permits > 0
    /\ permits' = permits - 1
    /\ acceptor' = [acceptor EXCEPT !.drained = @ + 1]
    /\ UNCHANGED <<hs, g_is_server_running, cacheVars, concVars, relayVars>>

\* The drain loop is over: WSACleanup, return 0; the semaphore and the
\* cache are destroyed.
Exit ==
    /\ impl = "cpp" /\ acceptor.pc = "drain"
    /\ acceptor.drained >= DrainCount
    /\ acceptor' = [acceptor EXCEPT !.pc = "exited"]
    /\ UNCHANGED <<g_is_server_running, cacheVars, concVars, handlerVars, relayVars>>

\* The handler reads and parses the request: socket I/O on the client.
Serve(h, ok) ==
    /\ hs[h].pc = "entry"
    /\ IF ok THEN hs' = [hs EXCEPT ![h].pc = "probe"] /\ UNCHANGED permits
       ELSE Return(h, "disconnect")
    /\ UNCHANGED <<cacheVars, concVars, serverVars, relayVars>>

\* cache_find / cache_add: the lock is taken.
CacheLock(h) ==
    /\ hs[h].pc \in {"probe", "store"}
    /\ MutexAcquirable(mutex)
    /\ mutex' = h
    /\ hs' = [hs EXCEPT ![h].pc = IF hs[h].pc = "probe" THEN "find_cs" ELSE "add_cs"]
    /\ UNCHANGED <<permits, th, lin, cacheVars, serverVars, relayVars>>

\* cache_find returns: the lock is dropped, then the handler sends the hit
\* or turns to the origin.
FindUnlock(h, hit) ==
    /\ hs[h].pc = "find_cs"
    /\ mutex' = MutexReleased(mutex)
    /\ hs' = [hs EXCEPT ![h].pc = IF hit THEN "reply" ELSE "origin"]
    /\ UNCHANGED <<permits, th, lin, cacheVars, serverVars, relayVars>>

\* The cached response is sent to the client.
Reply(h) ==
    /\ hs[h].pc = "reply"
    /\ Leave(h, "cache_hit")
    /\ UNCHANGED <<cacheVars, concVars, serverVars, relayVars>>

\* The origin is dialled and its response relayed: socket I/O.
Origin(h, ev) ==
    /\ hs[h].pc = "origin"
    /\ CASE ev = "refused" -> Leave(h, "connect_failed")
         [] ev = "send_error" -> Leave(h, "client_send_error")
         [] ev = "eof" -> hs' = [hs EXCEPT ![h].pc = "store"] /\ UNCHANGED permits
    /\ UNCHANGED <<cacheVars, concVars, serverVars, relayVars>>

\* cache_add returns: the lock is dropped; the handler is at its end.
AddUnlock(h) ==
    /\ hs[h].pc = "add_cs"
    /\ mutex' = MutexReleased(mutex)
    /\ Leave(h, "complete")
    /\ UNCHANGED <<th, lin, cacheVars, serverVars, relayVars>>

ServerNext ==
    \/ Shutdown
    \/ LoopTest
    \/ Acquire
    \/ \E ok \in BOOLEAN : Accept(ok)
    \/ \E h \in Handlers, ok \in BOOLEAN : StartThread(h, ok)
    \/ Drain
    \/ Exit
    \/ \E h \in Handlers, ok \in BOOLEAN : Serve(h, ok)
    \/ \E h \in Handlers : CacheLock(h)
    \/ \E h \in Handlers, hit \in BOOLEAN : FindUnlock(h, hit)
    \/ \E h \in Handlers : Reply(h)
    \/ \E h \in Handlers, ev \in {"refused", "send_error", "eof"} : Origin(h, ev)
    \/ \E h \in Handlers : AddUnlock(h)
    \/ \E h \in Handlers : Cleanup(h)

(***************************************************************************)
(* One request from the first recv to the return of the handler, with what *)
(* goes over the two sockets.  proxy_handler.cpp: handleClient,            *)
(* connectToRemoteHost, SocketGuard; proxy_handler.c: handle_client,       *)
(* connect_to_remote.  The origin's response is the bytes 1, 2, 3, ... so  *)
(* that a gap, a repetition or a change of order shows.                    *)
(***************************************************************************)
\* Bytes the origin sends at most: one more than a cache entry may hold.
MaxStream == 4
\* Bytes the origin sends at most to a client that takes every byte at once:
\* one more than the byte counter of handleClient can tell apart.
MaxResponse == 17
\* proxy_handler.cpp: HTTP_RECV_BUFFER_SIZE (4096), proxy_handler.c:
\* MAX_BYTES (4096): the size of one recv from the origin, scaled to two.
HTTP_RECV_BUFFER_SIZE == 2
MAX_BYTES == 2
RecvSize == IF impl = "cpp" THEN HTTP_RECV_BUFFER_SIZE ELSE MAX_BYTES
\* proxy_handler.cpp: HTTPS_RECV_BUFFER_SIZE (8192), the tunnel buffer,
\* scaled to two; the C tunnel buffer is char[MAX_BYTES].
HTTPS_RECV_BUFFER_SIZE == 2
TunnelRecvSize == IF impl = "cpp" THEN HTTPS_RECV_BUFFER_SIZE ELSE MAX_BYTES
\* The length of "HTTP/1.1 200 OK \r\n\r\n" (20; 19 in the C variant),
\* scaled to two.
OK_RESPONSE_LEN == 2
\* The width of size_t (64), scaled to five bits: an int compared with a
\* size_t is converted to it.
SIZE_T_BITS == 5
ToSizeT(i) == i % (2 ^ SIZE_T_BITS)
\* The width of int (32), scaled to four bits; an int that passes INT_MAX
\* wraps to INT_MIN, as the builds of this program do.
INT_BITS == 4
ToInt(i) == ((i + 2 ^ (INT_BITS - 1)) % (2 ^ INT_BITS)) - 2 ^ (INT_BITS - 1)
\* The length of the rebuilt request (modified_request.size(),
\* strlen(new_request)), scaled to two.
REBUILT_LEN == 2
\* The bytes from..to of the origin's response.
Stretch(from, to) == [i \in 1..(to - from + 1) |-> from + i - 1]
\* The request's URL, and what the cache may hold for it beforehand: the
\* first two bytes of the origin's response.
ReqUrl == UrlNames[1]
ReqCached == Stretch(1, 2)
\* send / recv return SOCKET_ERROR.
SOCKET_ERROR == 0 - 1
\* What a recv or send of at most one buffer can return.
IoResults == (SOCKET_ERROR..HTTP_RECV_BUFFER_SIZE) \cup (SOCKET_ERROR..MAX_BYTES)
\* Mutant: a close that does not happen.
closesocket_skipped(n) == n
\* closesocket / closeSocket on a valid socket.
closesocket(n) == n + 1
\* ~SocketGuard: closes unless the socket is INVALID_SOCKET.
SocketGuard_dtor(valid, n) == IF valid THEN closesocket(n) ELSE n

\* Mutant: the handler goes to the origin whatever the cache returned.
cache_hit_ignored(found) == FALSE
\* !cached_response.empty() / cached_response != NULL.
cache_hit(found) == found # <<>>

RequestStart ==
    [pc |-> "entry", path |-> "none", method |-> "none", hdr |-> 0, complete |-> FALSE,
     reject |-> "none", hit |-> FALSE, connfail |-> FALSE,
     out |-> <<>>, cclosed |-> 0, osocks |-> 0, oopen |-> FALSE, oclosed |-> 0,
     osent |-> 0, received |-> 0, chunk |-> <<>>, bytes_sent |-> 0, short |-> FALSE,
     acc |-> <<>>, total |-> 0, caching |-> FALSE, ended |-> "none", adds |-> <<>>,
     okout |-> <<>>, sent_rebuilt |-> 0, okfail |-> FALSE,
     cin |-> 0, oin |-> 0, oout |-> <<>>, cout |-> <<>>,
     tunnel_buffer |-> <<>>, total_sent |-> 0, dir |-> "none",
     cached |-> <<>>, hitfail |-> FALSE, oreq |-> 0, steady |-> FALSE, tev |-> "none"]

\* Everything but the request itself: the cache holds ReqUrl or is empty.
RequestSetup ==
    /\ impl \in {"cpp", "c"}
    /\ call = NoCall /\ stored = <<>> /\ recent = <<>> /\ hung = FALSE
    /\ mutex = 0 /\ th = <<>> /\ lin = Cache_Cache
    /\ permits = 0 /\ hs = <<>>
    /\ acceptor = <<>> /\ g_is_server_running = TRUE
    /\ \E seeded \in BOOLEAN :
          LET E == IF impl = "cpp" THEN Cache_Cache ELSE cache_init
              c == IF seeded THEN AtomicAdd(E, ReqUrl, ReqCached) ELSE E
          IN /\ cache_system = IF impl = "cpp" THEN c ELSE Cache_Cache
             /\ g_cache = IF impl = "c" THEN c ELSE cache_init

RequestInit == RequestSetup /\ fw = RequestStart
\* The client takes every byte of every send at once, and the origin may
\* send up to MaxResponse bytes.
LongInit == RequestSetup /\ fw = [RequestStart EXCEPT !.steady = TRUE]

\* The handler returns: the origin socket, if the handler holds one, is
\* closed (remote_socket_guard; closesocket(remote_socket)), then the
\* client socket (socket_guard; closesocket(client_socket)).
RqReturn(rec, path) ==
    [rec EXCEPT !.pc = "done", !.path = path, !.oopen = FALSE,
                !.oclosed = SocketGuard_dtor(rec.oopen, @),
                !.cclosed = closesocket(@)]
\* send_error_response / sendHttpError writes a status line to the client;
\* in out it stands as its status code.
RqStatus(rec, code) == [rec EXCEPT !.out = Append(@, code)]

RqUnchanged == UNCHANGED <<histVars, concVars, handlerVars, serverVars>>

\* The first recv on the client socket (after calloc in the C variant).
RqFirstRecv(r) ==
    /\ fw.pc = "entry"
    /\ CASE r = "nomem" -> impl = "c" /\ fw' = RqReturn(fw, "nomem")
         [] r = "closed" -> fw' = RqReturn(fw, "disconnect")
         [] r = "connect" -> fw' = [fw EXCEPT !.pc = "connect_parse", !.method = "CONNECT"]
         [] r \in {"get", "get_partial"} ->
               fw' = [fw EXCEPT !.pc = "headers", !.method = "GET", !.hdr = 1,
                                !.complete = (r = "get")]
         [] r \in {"other", "other_partial"} ->
               IF impl = "cpp" THEN fw' = RqReturn([fw EXCEPT !.method = "OTHER"], "unsupported")
               ELSE fw' = [fw EXCEPT !.pc = "headers", !.method = "OTHER", !.hdr = 1,
                                     !.complete = (r = "other")]
    /\ UNCHANGED <<cache_system, g_cache>> /\ RqUnchanged

\* CONNECT: the target is parsed.  A failure ends handleClient silently;
\* handle_client answers 400.
RqConnectParse(ok) ==
    /\ fw.pc = "connect_parse"
    /\ fw' = IF ok THEN [fw EXCEPT !.pc = "connect_dial"]
             ELSE IF impl = "cpp" THEN RqReturn(fw, "malformed")
             ELSE RqReturn(RqStatus(fw, 400), "malformed")
    /\ UNCHANGED <<cache_system, g_cache>> /\ RqUnchanged

\* connectToRemoteHost / connect_to_remote: a socket is created (C++:
\* before the name is resolved, C: after), and closed again there when the
\* connection does not come about.
RqConnected(rec, r) ==
    LET made == \/ r \in {"ok", "refused"}
                \/ r = "unresolved" /\ impl = "cpp"
    IN [rec EXCEPT !.osocks = IF made THEN @ + 1 ELSE @,
                   !.oclosed = IF made /\ r # "ok" THEN closesocket(@) ELSE @,
                   !.oopen = (r = "ok"),
                   !.connfail = (r # "ok")]

\* CONNECT: the origin is dialled.  On failure handleClient returns,
\* handle_client sends 502.
RqConnectDial(r) ==
    /\ fw.pc = "connect_dial"
    /\ LET rec == RqConnected(fw, r)
       IN fw' = IF r = "ok" THEN [rec EXCEPT !.pc = "ok_send"]
                ELSE IF impl = "cpp" THEN RqReturn(rec, "connect_failed")
                ELSE RqReturn(RqStatus(rec, 502), "connect_failed")
    /\ UNCHANGED <<cache_system, g_cache>> /\ RqUnchanged

\* while (sent_rebuilt < rebuilt.size()) / while (total_sent < len): the
\* first compares an int with a size_t, the second two ints that are never
\* negative there.
send_loop_goes_on(sent, size) == ToSizeT(sent) < size

\* One send of the 200 OK response; n is what send returns, SOCKET_ERROR
\* or the number of bytes taken.  fw.okout: the bytes of the response the
\* client socket took, by their position in it.  handle_client sends once
\* and does not look at the result.  handleClient adds the result to
\* sent_rebuilt, whatever it is, and repeats while sent_rebuilt, converted
\* to size_t, is below the length.
RqOkSend(n) ==
    /\ fw.pc = "ok_send" /\ n # 0
    /\ Len(fw.okout) < MaxStream
    /\ IF impl = "c"
       THEN /\ n <= OK_RESPONSE_LEN
            /\ fw' = [fw EXCEPT !.okout = IF n > 0 THEN Stretch(1, n) ELSE <<>>,
                                !.okfail = (n = SOCKET_ERROR),
                                !.pc = "tunnel"]
       ELSE /\ n <= OK_RESPONSE_LEN - fw.sent_rebuilt
            /\ fw' = [fw EXCEPT
                        !.okout = IF n > 0
                                  THEN @ \o Stretch(fw.sent_rebuilt + 1, fw.sent_rebuilt + n)
                                  ELSE @,
                        !.okfail = @ \/ n = SOCKET_ERROR,
                        !.sent_rebuilt = @ + n,
                        !.pc = IF send_loop_goes_on(fw.sent_rebuilt + n, OK_RESPONSE_LEN)
                               THEN "ok_send" ELSE "tunnel"]
    /\ UNCHANGED <<cache_system, g_cache>> /\ RqUnchanged

\* Mutant: only a recv error ends the tunnel, a peer's close does not.
recv_ends_tunnel_on_error(len) == len < 0
\* if (len <= 0) break; / if (n_bytes <= 0) break;
recv_ends_tunnel(len) == len <= 0

\* The tunnel ends at select: it fails or times out.  fw.tev: what the last
\* select, recv or send of the relay loop came back with.
RqTunnel(ev) ==
    /\ fw.pc = "tunnel"
    /\ fw' = RqReturn([fw EXCEPT !.tev = ev], "tunnel_closed")
    /\ UNCHANGED <<cache_system, g_cache>> /\ RqUnchanged

\* select reports one side readable and recv on it returns n.  dir "up":
\* the client is read, dir "down": the origin.  The k-th byte a peer sends
\* is the number k.  n <= 0 ends the tunnel.  (When both sides are readable
\* the code serves the client and then the origin in one pass; here these
\* are two passes.)
RqTunnelRecv(dir, n) ==
    /\ fw.pc = "tunnel" /\ n <= TunnelRecvSize
    /\ IF recv_ends_tunnel(n)
       THEN fw' = RqReturn([fw EXCEPT !.tev = IF n = 0 THEN "recv_closed"
                                              ELSE "recv_error",
                                     !.dir = dir],
                           "peer_closed")
       ELSE /\ fw.cin + fw.oin + n <= MaxStream
            /\ LET from == IF dir = "up" THEN fw.cin ELSE fw.oin
               IN fw' = [fw EXCEPT !.tunnel_buffer = Stretch(from + 1, from + n),
                                   !.tev = IF n = 0 THEN "recv_closed" ELSE "recv_ok",
                                   !.cin = IF dir = "up" THEN @ + n ELSE @,
                                   !.oin = IF dir = "down" THEN @ + n ELSE @,
                                   !.total_sent = 0, !.dir = dir, !.pc = "tunnel_send"]
    /\ UNCHANGED <<cache_system, g_cache>> /\ RqUnchanged

\* What was read is sent to the other side; n is what send returns.
\* fw.oout, fw.cout: the bytes the origin and the client socket took.
\* handleClient repeats from tunnel_buffer + total_sent until all of it is
\* out and returns on SOCKET_ERROR; handle_client sends once, leaves the
\* loop on SOCKET_ERROR and otherwise goes back to select.
RqTunnelSend(n) ==
    /\ fw.pc = "tunnel_send" /\ n # 0
    /\ n <= Len(fw.tunnel_buffer) - fw.total_sent
    /\ IF n = SOCKET_ERROR
       THEN fw' = RqReturn([fw EXCEPT !.tev = "send_error"], "tunnel_send_error")
       ELSE LET bytes == SubSeq(fw.tunnel_buffer, fw.total_sent + 1, fw.total_sent + n)
                more == impl = "cpp"
                        /\ send_loop_goes_on(fw.total_sent + n, Len(fw.tunnel_buffer))
            IN fw' = [fw EXCEPT !.tev = "send_ok",
                                !.oout = IF fw.dir = "up" THEN @ \o bytes ELSE @,
                                !.cout = IF fw.dir = "down" THEN @ \o bytes ELSE @,
                                !.total_sent = IF impl = "cpp" THEN @ + n ELSE @,
                                !.pc = IF more THEN "tunnel_send" ELSE "tunnel"]
    /\ UNCHANGED <<cache_system, g_cache>> /\ RqUnchanged

\* The header loop: the blank line is there; or the size limit is reached
\* (handleClient returns, handle_client breaks and goes on with what it
\* has); or one more recv.
RqHeaders(r) ==
    /\ fw.pc = "headers"
    /\ fw' = IF fw.complete THEN [fw EXCEPT !.pc = "target"]
             ELSE IF fw.hdr >= MaxHeaderRecvs
             THEN IF impl = "cpp"
                  THEN RqReturn([fw EXCEPT !.reject = "oversized"], "header_overflow")
                  ELSE [fw EXCEPT !.reject = "oversized", !.pc = "target"]
             ELSE CASE r = "closed" -> RqReturn(fw, "header_disconnect")
                    [] r = "more" -> [fw EXCEPT !.hdr = @ + 1]
                    [] r = "rest" -> [fw EXCEPT !.hdr = @ + 1, !.complete = TRUE]
    /\ UNCHANGED <<cache_system, g_cache>> /\ RqUnchanged

\* parseRequestTarget / get_url_from_request: no target between two spaces
\* ends handleClient silently; handle_client answers 400.
RqTarget(ok) ==
    /\ fw.pc = "target"
    /\ fw' = IF ok THEN [fw EXCEPT !.pc = "cache"]
             ELSE IF impl = "cpp" THEN RqReturn([fw EXCEPT !.reject = "no_target"], "malformed")
             ELSE RqReturn(RqStatus([fw EXCEPT !.reject = "no_target"], 400), "malformed")
    /\ UNCHANGED <<cache_system, g_cache>> /\ RqUnchanged

\* cacheFind(url) / cache_find(url); a hit is sent to the client next.
RqCacheProbe ==
    /\ fw.pc = "cache"
    /\ LET r == AtomicFind(ConcCache, ReqUrl)
       IN /\ cache_system' = IF impl = "cpp" THEN r.cache ELSE cache_system
          /\ g_cache' = IF impl = "c" THEN r.cache ELSE g_cache
          /\ fw' = IF cache_hit(r.ret)
                   THEN [fw EXCEPT !.hit = (r.ret # <<>>), !.cached = r.ret,
                                   !.pc = "hit_send"]
                   ELSE [fw EXCEPT !.hit = (r.ret # <<>>), !.pc = "origin_dial"]
    /\ RqUnchanged

\* The cached response goes to the client:
\*   send(client_socket, cached_response.data(), cached_response.size(), 0);
\* one send in both variants, n is what it returns and nobody looks at; then
\* the handler is at its end.
RqHitSend(n) ==
    /\ fw.pc = "hit_send" /\ n # 0 /\ n <= Len(fw.cached)
    /\ fw' = RqReturn([fw EXCEPT !.out = IF n > 0 THEN @ \o SubSeq(fw.cached, 1, n) ELSE @,
                                  !.hitfail = (n = SOCKET_ERROR)],
                      "cache_hit")
    /\ UNCHANGED <<cache_system, g_cache>> /\ RqUnchanged

\* parseHttpUrl / parse_full_url, then the origin is dialled.  A URL that
\* does not parse ends handleClient silently, handle_client answers 400; a
\* failed connection is answered with 502.
RqOriginDial(r) ==
    /\ fw.pc = "origin_dial"
    /\ fw' = IF r = "bad_url"
             THEN IF impl = "cpp" THEN RqReturn([fw EXCEPT !.reject = "bad_url"], "bad_url")
                  ELSE RqReturn(RqStatus([fw EXCEPT !.reject = "bad_url"], 400), "bad_url")
             ELSE IF r = "ok" THEN [RqConnected(fw, r) EXCEPT !.pc = "origin_send"]
             ELSE RqReturn(RqStatus(RqConnected(fw, r), 502), "connect_failed")
    /\ UNCHANGED <<cache_system, g_cache>> /\ RqUnchanged

\* The rebuilt request goes to the origin in one send; n is what send
\* returns, and both variants compare it with SOCKET_ERROR only.  fw.oreq:
\* the bytes of the request the origin socket took.  cache_this_response is
\* set for GET.
RqOriginSend(n) ==
    /\ fw.pc = "origin_send" /\ n # 0 /\ n <= REBUILT_LEN
    /\ fw' = IF n # SOCKET_ERROR
             THEN [fw EXCEPT !.pc = "relay_recv", !.osent = @ + 1, !.oreq = n,
                             !.caching = (fw.method = "GET")]
             ELSE RqReturn([fw EXCEPT !.osent = @ + 1], "origin_send_error")
    /\ UNCHANGED <<cache_system, g_cache>> /\ RqUnchanged

\* recv on the origin socket: n bytes, 0 at the origin's close, or
\* SOCKET_ERROR (error, timeout).  Both loops end on n <= 0.
RqOriginRecv(n) ==
    /\ fw.pc = "relay_recv"
    /\ n <= RecvSize
    /\ n > 0 => fw.received + n <= (IF fw.steady THEN MaxResponse ELSE MaxStream)
    /\ fw' = IF n > 0
             THEN [fw EXCEPT !.pc = "relay_send", !.received = @ + n,
                             !.chunk = Stretch(fw.received + 1, fw.received + n),
                             !.bytes_sent = 0]
             ELSE [fw EXCEPT !.pc = "store",
                             !.ended = IF n = 0 THEN "eof" ELSE "recv_error"]
    /\ UNCHANGED <<cache_system, g_cache>> /\ RqUnchanged

\* int total_bytes_received against size_t MAX_CACHE_BYTES.
fits_cache(total) == ToSizeT(total) <= MAX_CACHE_BYTES
\* handleClient, after the send loop of one chunk:
\*   total_bytes_received += bytes_received;
\*   if (total_bytes_received <= MAX_CACHE_BYTES) append the chunk.
Collect_cpp(rec) ==
    [rec EXCEPT !.pc = "relay_recv", !.total = ToInt(@ + Len(rec.chunk)),
                !.acc = IF fits_cache(ToInt(rec.total + Len(rec.chunk)))
                        THEN @ \o rec.chunk ELSE @]
\* handle_client, after the send of one chunk: when caching, a chunk that
\* would pass MAX_CACHE_SIZE ends the caching and frees the buffer,
\* otherwise the chunk is copied to the buffer's end.
Collect_c(rec) ==
    IF ~rec.caching THEN [rec EXCEPT !.pc = "relay_recv"]
    ELSE IF rec.total + Len(rec.chunk) > MAX_CACHE_SIZE
    THEN [rec EXCEPT !.pc = "relay_recv", !.caching = FALSE, !.acc = <<>>]
    ELSE [rec EXCEPT !.pc = "relay_recv", !.acc = @ \o rec.chunk,
                     !.total = @ + Len(rec.chunk)]

\* One send of the chunk (what is left of it) to the client, returning n.
\* handleClient loops until the chunk is out, returns on SOCKET_ERROR and
\* leaves the loop on 0.  handle_client sends once, leaves the response
\* loop on SOCKET_ERROR and takes any other return for the whole chunk.
RqClientSend(n) ==
    /\ fw.pc = "relay_send"
    /\ n <= Len(fw.chunk) - fw.bytes_sent
    /\ fw.steady => n = Len(fw.chunk) - fw.bytes_sent
    /\ LET sent == [fw EXCEPT !.out = @ \o SubSeq(fw.chunk, fw.bytes_sent + 1,
                                                   fw.bytes_sent + n),
                              !.bytes_sent = @ + n,
                              !.short = @ \/ (n = 0)
                                          \/ (impl = "c" /\ n < Len(fw.chunk))]
       IN fw' = IF impl = "cpp"
                THEN IF n = SOCKET_ERROR THEN RqReturn(fw, "client_send_error")
                     ELSE IF n = 0 \/ sent.bytes_sent >= Len(fw.chunk) THEN Collect_cpp(sent)
                     ELSE sent
                ELSE IF n = SOCKET_ERROR
                     THEN [fw EXCEPT !.pc = "store", !.ended = "send_error"]
                     ELSE Collect_c(sent)
    /\ UNCHANGED <<cache_system, g_cache>> /\ RqUnchanged

\* After the response loop: the response goes to the cache,
\*   C++: if (total_bytes_received <= MAX_CACHE_BYTES) cacheAdd(url, data)
\*   C:   if (cache_this_response && total_bytes_received > 0 && cache_buffer)
\*            cache_add(url, cache_buffer, total_bytes_received)
\* and the handler is at its end.
RqStore ==
    /\ fw.pc = "store"
    /\ LET calls == IF impl = "cpp" THEN fits_cache(fw.total)
                    ELSE fw.caching /\ fw.total > 0
           path == IF fw.ended = "send_error" THEN "client_send_error" ELSE "complete"
       IN /\ fw' = RqReturn([fw EXCEPT !.adds = IF calls THEN Append(@, fw.acc) ELSE @], path)
          /\ cache_system' = IF impl = "cpp" /\ calls
                             THEN Cache_cache_add(cache_system, ReqUrl, fw.acc)
                             ELSE cache_system
          /\ g_cache' = IF impl = "c" /\ calls
                        THEN cache_add(g_cache, Ptr(ReqUrl), Ptr(fw.acc), fw.total, "none")
                        ELSE g_cache
    /\ RqUnchanged

RequestNext ==
    \/ \E r \in {"nomem", "closed", "connect", "get", "get_partial", "other", "other_partial"} :
          RqFirstRecv(r)
    \/ \E ok \in BOOLEAN : RqConnectParse(ok)
    \/ \E r \in {"ok", "no_socket", "unresolved", "refused"} : RqConnectDial(r)
    \/ \E n \in IoResults : RqOkSend(n)
    \/ \E ev \in {"select_error", "timeout"} : RqTunnel(ev)
    \/ \E dir \in {"up", "down"}, n \in IoResults : RqTunnelRecv(dir, n)
    \/ \E n \in IoResults : RqTunnelSend(n)
    \/ \E r \in {"closed", "more", "rest"} : RqHeaders(r)
    \/ \E ok \in BOOLEAN : RqTarget(ok)
    \/ RqCacheProbe
    \/ \E n \in IoResults : RqHitSend(n)
    \/ \E r \in {"bad_url", "ok", "no_socket", "unresolved", "refused"} : RqOriginDial(r)
    \/ \E n \in IoResults : RqOriginSend(n)
    \/ \E n \in IoResults : RqOriginRecv(n)
    \/ \E n \in IoResults : RqClientSend(n)
    \/ RqStore

(***************************************************************************)
(* cache_add when an allocation fails.  The environment chooses which      *)
(* allocation of the call returns NULL (C) or throws std::bad_alloc (C++): *)
(* "data" the payload buffer, "element" the node, "copies" the URL and     *)
(* payload copies held by a new node, "map_node" the node the hash map     *)
(* creates for a new key.  The cache is followed up to and including the   *)
(* first call in which an allocation failed.                               *)
(***************************************************************************)
\* Whether the chosen allocation is reached by this call.
\* proxy_cache.cpp: make_shared of the payload (line 57) on every admitted
\* call; make_shared<cache_node>, which also copies the URL (line 90), and
\* cache_map[url] = new_node (line 108) for a new key only.
Cache_alloc_fails(c, url, data, fail) ==
    /\ Cache_admits(url, data)
    /\ \/ fail = "data"
       \/ url \notin DOMAIN c.cache_map /\ fail \in {"element", "copies", "map_node"}
\* proxy_cache.c: malloc(length) of the update branch (line 332); calloc of
\* the element (365), strdup and malloc (378-380), create_node inside
\* map_insert (402) of the insert branch.
cache_alloc_fails(g, url, data, length, fail) ==
    /\ cache_admits(url, data, length)
    /\ ~cache_add_hangs(g, url, data, length)
    /\ IF map_find(g, Deref(url)) # NULLP THEN fail = "data"
       ELSE fail \in {"element", "copies", "map_node"}

\* Cache::cache_add leaving by std::bad_alloc.  The payload and the node
\* are made before anything is changed; the map insertion throws after the
\* eviction and after the node was linked at the head, and the statement
\* current_size += data_size is not reached.
Cache_cache_add_throws(c, url, data, fail) ==
    IF fail = "map_node"
    THEN LET new_node == NewNode(c.nodes, url)
             c1 == [c EXCEPT !.nodes = MapPut(@, new_node,
                        [data_ptr |-> data, url |-> url, next |-> NULLP, prev |-> NULLP])]
             c2 == Cache_remove_lru_node_unlocked(c1, Len(data))
         IN Cache_release_unowned(Cache_push_front(c2, new_node))
    ELSE c

CppCacheAddAlloc(url, data, fail) ==
    /\ impl = "cpp" /\ call.op # "add_failed"
    /\ LET fails == Cache_alloc_fails(cache_system, url, data, fail)
       IN /\ cache_system' = IF fails THEN Cache_cache_add_throws(cache_system, url, data, fail)
                             ELSE Cache_cache_add(cache_system, url, data)
          /\ call' = [op |-> IF fails THEN "add_failed" ELSE "add", url |-> url,
                      ok |-> Admissible(url, data),
                      existed |-> url \in DOMAIN cache_system.cache_map,
                      big |-> Len(data) > MAX_CACHE_BYTES,
                      evicted |-> Cardinality((DOMAIN cache_system.cache_map)
                                                  \ (DOMAIN cache_system'.cache_map)),
                      hit |-> FALSE, ret |-> <<>>]
    /\ UNCHANGED <<impl, g_cache, stored, recent, hung, concVars, handlerVars, serverVars,
                   relayVars>>

CCacheAddAlloc(url, buf, fail) ==
    /\ impl = "c" /\ call.op # "add_failed" /\ ~hung
    /\ LET data == buf[1]
           length == buf[2]
           fails == cache_alloc_fails(g_cache, url, data, length, fail)
       IN /\ g_cache' = cache_add(g_cache, url, data, length, IF fails THEN fail ELSE "none")
          /\ hung' = cache_add_hangs(g_cache, url, data, length)
          /\ call' = [op |-> IF fails THEN "add_failed" ELSE "add", url |-> UrlStr(url),
                      ok |-> url # CNULL /\ data # CNULL
                             /\ Admissible(UrlStr(url), BufSeq(data, length)),
                      existed |-> url # CNULL /\ UrlStr(url) \in DOMAIN g_cache.map,
                      big |-> length > MAX_CACHE_SIZE,
                      evicted |-> Cardinality((DOMAIN g_cache.map) \ (DOMAIN g_cache'.map)),
                      hit |-> FALSE, ret |-> <<>>]
    /\ UNCHANGED <<impl, cache_system, stored, recent, concVars, handlerVars, serverVars,
                   relayVars>>

AllocNext ==
    \/ \E url \in Urls, data \in Payloads, fail \in AllocFailures :
          CppCacheAddAlloc(url, data, fail)
    \/ \E url \in CUrls, buf \in CBuffers, fail \in AllocFailures :
          CCacheAddAlloc(url, buf, fail)

(***************************************************************************)
(* cache_add on its own: the cache after any sequence of puts of string    *)
(* URLs and byte buffers given with their true length, without the         *)
(* histories kept for the other properties.  A C put that would never      *)
(* return is left out.                                                     *)
(***************************************************************************)
EvictAdd(url, data) ==
    /\ call.op \in {"none", "add"} /\ UNCHANGED impl
    /\ IF impl = "cpp"
       THEN /\ cache_system' = Cache_cache_add(cache_system, url, data)
            /\ UNCHANGED g_cache
       ELSE /\ ~cache_add_hangs(g_cache, Ptr(url), Ptr(data), Len(data))
            /\ g_cache' = cache_add(g_cache, Ptr(url), Ptr(data), Len(data), "none")
            /\ UNCHANGED cache_system
    /\ call' = [NoCall EXCEPT !.op = "add", !.url = url,
                              !.ok = Admissible(url, data),
                              !.evicted = Cardinality(Keys \ Keys')]
    /\ UNCHANGED <<stored, recent, hung, concVars, handlerVars, serverVars, relayVars>>

EvictNext == \E url \in Urls, data \in Payloads : EvictAdd(url, data)

vars == <<impl, cache_system, g_cache, call, stored, recent, hung, mutex, th, lin, permits, hs,
          acceptor, g_is_server_running, fw>>

SpecRequest == RequestInit /\ [][RequestNext]_vars
SpecLong == LongInit /\ [][RequestNext]_vars

SpecServer == ServerInit /\ [][ServerNext]_vars

\* One step of handler thread h in the server specification.
HandlerStep(h) ==
    \/ \E ok \in BOOLEAN : Serve(h, ok)
    \/ CacheLock(h)
    \/ \E hit \in BOOLEAN : FindUnlock(h, hit)
    \/ Reply(h)
    \/ \E ev \in {"refused", "send_error", "eof"} : Origin(h, ev)
    \/ AddUnlock(h)
    \/ Cleanup(h)

\* The server under a fair scheduler.  main's thread runs whenever it is
\* not blocked; accept is only known to return once console_handler has
\* closed the listen socket; every handler thread keeps running until it
\* has returned (socket timeouts end its I/O).  No fairness on Shutdown.
SpecServerFair ==
    /\ ServerInit /\ [][ServerNext]_vars
    /\ WF_vars(LoopTest) /\ WF_vars(Acquire)
    /\ WF_vars(~g_is_server_running /\ \E ok \in BOOLEAN : Accept(ok))
    /\ WF_vars(\E h \in Handlers, ok \in BOOLEAN : StartThread(h, ok))
    /\ WF_vars(Drain) /\ WF_vars(Exit)
    /\ \A h \in Handlers : WF_vars(HandlerStep(h))

Spec == CacheInit /\ [][CacheNext]_vars

SpecConc == ConcInit /\ [][ConcNext]_vars

SpecHandler == HandlerInit /\ [][HandlerNext]_vars

SpecAlloc == CacheInit /\ [][AllocNext]_vars

SpecEvict == CacheInit /\ [][EvictNext]_vars

TypeOK ==
    /\ impl \in {"cpp", "c"}
    /\ CurrentSize \in 0..Capacity
    /\ Keys \subseteq Urls

(***************************************************************************)
(* Properties of the cache.                                                *)
(***************************************************************************)
\* C1: after every cache_add and cache_find, current_size equals the sum of
\* the payload lengths of the entries in the cache and does not exceed the
\* capacity (MAX_CACHE_BYTES / MAX_CACHE_SIZE).
C1_SizeAccounting ==
    /\ CurrentSize = SumLen(Keys)
    /\ CurrentSize <= Capacity
\* A put has evicted, and two entries fill the cache to its capacity.
C1_Witness ==
    /\ call.op = "add" /\ call.evicted >= 1
    /\ Cardinality(Keys) = 2 /\ CurrentSize = Capacity

\* C2: between public operations the map keys are exactly the URLs of the
\* nodes reachable in the recency list, every URL is in exactly one list node
\* (the one the map names), and the list is as long as the map is large.
C2_MapMatchesList ==
    /\ Range(ListUrls) = Keys
    /\ Len(ListNodes) = Cardinality(Keys)
    /\ \A u \in Keys :
          /\ NodeOf(u) \in DOMAIN Heap
          /\ Heap[NodeOf(u)].url = u
          /\ Cardinality({i \in DOMAIN ListNodes : ListNodes[i] = NodeOf(u)}) = 1
\* A put has evicted one entry and left two in both structures.
C2_Witness ==
    /\ call.op = "add" /\ call.ok /\ call.evicted = 1
    /\ Cardinality(Keys) = 2 /\ Len(ListNodes) = 2

\* C3: a cache_find(u) for a non-empty u, after a cache_add(u, b) with
\* 0 < len(b) <= capacity that no later cache_add has evicted or
\* overwritten, returns exactly b.
C3_FindReturnsWhatWasAdded ==
    (call.op = "find" /\ call.url # "" /\ call.url \in DOMAIN stored)
        => (call.hit /\ call.ret = stored[call.url])
\* A get hit an entry that was not the most recently used one of three.
C3_Witness ==
    /\ call.op = "find" /\ call.hit /\ call.url # ""
    /\ call.url \in DOMAIN stored /\ call.ret = stored[call.url]
    /\ Len(recent) = 3

\* After a put to a resident key: one list node carries the key, it holds the
\* new payload, and current_size is the new length plus the other entries'.
OverwriteDone ==
    (call.op = "add" /\ call.ok /\ call.existed)
        => /\ call.url \in Keys
           /\ Cardinality({i \in DOMAIN ListUrls : ListUrls[i] = call.url}) = 1
           /\ PayloadOf(call.url) = stored[call.url]
           /\ CurrentSize = Len(stored[call.url]) + SumLen(Keys \ {call.url})
\* C4: after cache_add(u, b1) and then cache_add(u, b2), both admissible, the
\* cache holds exactly one entry for u, current_size counts len(b2) and no
\* longer len(b1), and cache_find(u) returns b2.
C4_OverwriteReplaces ==
    [][/\ OverwriteDone'
       /\ (call.op = "add" /\ call.ok /\ call.existed
             /\ call'.op = "find" /\ call'.url = call.url)
            => (call'.hit /\ call'.ret = stored[call.url])]_vars
\* A put has replaced a resident payload by one of another length and had to
\* evict for it.
C4_Witness ==
    /\ call.op = "add" /\ call.ok /\ call.existed /\ call.evicted = 1
    /\ PayloadOf(call.url) = stored[call.url]
    /\ CurrentSize = Capacity

\* C5: every entry a cache_add evicts was accessed (by a successful
\* cache_find or a cache_add) less recently than every entry that stays;
\* no entry is evicted while a less recently accessed one remains.
C5_EvictsLeastRecentlyUsed ==
    [][\A e \in Keys \ Keys' :
          \A r \in (Keys \cap Keys') \ {call'.url} :
             Pos(recent, e) > 0 /\ Pos(recent, r) > 0
                /\ Pos(recent, r) < Pos(recent, e)]_vars
\* A put has evicted while an entry other than the one it wrote stayed.
C5_Witness ==
    /\ call.op = "add" /\ call.evicted >= 1
    /\ Keys \ {call.url} # {}

\* C6 as stated: after a cache_find(u) that returns a payload, u is the head
\* of the recency list, and a following cache_add that evicts one entry
\* evicts another entry than u, whatever else the cache holds.
C6_FindShieldsFromNextEviction ==
    [][/\ (call'.op = "find" /\ call'.hit)
            => (ListHead' # NULLP /\ ListHead' \in DOMAIN Heap'
                /\ Heap'[ListHead'].url = call'.url)
       /\ (call.op = "find" /\ call.hit
             /\ call'.op = "add" /\ call'.evicted = 1)
            => call.url \in Keys']_vars

\* C6, amended: after a cache_find(u) that returns a payload, u is the head
\* of the recency list (also when u is the only entry or was the head
\* already); a following cache_add that evicts one entry evicts another
\* entry than u provided the cache holds an entry that is neither u nor the
\* key the cache_add writes.
C6_FindPromotesToHead ==
    [][/\ (call'.op = "find" /\ call'.hit)
            => (ListHead' # NULLP /\ ListHead' \in DOMAIN Heap'
                /\ Heap'[ListHead'].url = call'.url)
       /\ (call.op = "find" /\ call.hit
             /\ call'.op = "add" /\ call'.evicted = 1
             /\ Keys \ {call.url, call'.url} # {})
            => call.url \in Keys']_vars
\* A get has hit one of three entries and it is at the head.
C6_Witness ==
    /\ call.op = "find" /\ call.hit
    /\ Cardinality(Keys) = 3
    /\ Heap[ListHead].url = call.url

\* C7: cache_add(u, b) with an empty URL, an empty payload or a payload
\* longer than the capacity leaves the whole cache state unchanged.
C7_RejectedPutChangesNothing ==
    [][(call'.op = "add" /\ ~call'.ok)
          => UNCHANGED <<cache_system, g_cache>>]_vars

(***************************************************************************)
(* Properties of the threads on the cache.                                 *)
(***************************************************************************)
\* C8: concurrent cache_add and cache_find calls are linearizable.  Only the
\* mutex holder is inside a critical section; whenever the mutex is free
\* (in particular after all threads are done) the cache is what the calls
\* made so far give when run one at a time in lock order, with map and list
\* in step and the byte count right; and every cache_find returned what
\* it returns in that sequential order.
C8_Linearizable ==
    /\ \A t \in DOMAIN th :
          th[t].pc \in {"find_cs", "add_cs", "add_cs2"} => mutex = t
    /\ mutex = 0 => /\ ConcCache = lin
                    /\ CurrentSize = SumLen(Keys) /\ CurrentSize <= Capacity
                    /\ Range(ListUrls) = Keys /\ Len(ListNodes) = Cardinality(Keys)
    /\ \A t \in DOMAIN th :
          th[t].pc \notin {"start", "find", "find_cs"} => th[t].found = th[t].exp
\* All threads are done; two of them missed the same URL and both stored it.
C8_Witness ==
    /\ th # <<>> /\ \A t \in DOMAIN th : th[t].pc = "done"
    /\ \E t1, t2 \in DOMAIN th :
          /\ t1 # t2 /\ th[t1].url = th[t2].url
          /\ th[t1].data # <<>> /\ th[t2].data # <<>> /\ th[t1].data # th[t2].data

\* C9: what a handler sends to its client after a cache hit is the payload
\* as it was when cache_find returned, and the handler reads no payload
\* that a concurrent cache_add has replaced or released.
C9_HitIsSnapshot ==
    \A t \in DOMAIN th :
        (th[t].pc = "done" /\ th[t].found # <<>>)
            => (th[t].sent = th[t].found /\ ~th[t].stale)

(***************************************************************************)
(* Properties of the handlers.                                             *)
(***************************************************************************)
\* C10: a dispatched handler releases its admission permit exactly once, on
\* every exit path: it has released nothing while it runs and exactly one
\* permit when it has returned, and the permits out are those of the
\* handlers still running.
C10_PermitReleasedOnce ==
    /\ \A h \in DOMAIN hs :
          /\ hs[h].pc = "returned" => hs[h].released = 1
          /\ hs[h].pc # "returned" => hs[h].released = 0
    /\ hs # <<>> =>
          permits + Cardinality({h \in DOMAIN hs : hs[h].pc \notin {"idle", "returned"}})
             = MaxPermits
\* One handler has returned from a tunnel whose send failed, another after
\* a client that sent nothing, and all permits are back.
C10_Witness ==
    /\ hs # <<>> /\ permits = MaxPermits
    /\ \E h1, h2 \in DOMAIN hs :
          /\ hs[h1].pc = "returned" /\ hs[h1].path = "tunnel_send_error"
          /\ hs[h2].pc = "returned" /\ hs[h2].path = "disconnect"

(***************************************************************************)
(* Properties of the server: acceptor, handlers, semaphore, mutex.         *)
(***************************************************************************)
\* C11: the running handler threads are never more than the permit count,
\* and the free permits, those in the acceptor's hand (one taken for the
\* next client, or those drained) and those of the running handlers add up
\* to the permit count: none is lost, none created.
C11_PermitsConserved ==
    acceptor # <<>> =>
        /\ Cardinality(Running) <= MaxPermits
        /\ permits + acceptor.held + acceptor.drained + Cardinality(Running) = MaxPermits
\* Every permit is out: the acceptor holds one for a client it has accepted
\* and the rest are with running handlers.
C11_Witness ==
    /\ acceptor # <<>> /\ permits = 0 /\ acceptor.held = 1
    /\ Cardinality(Running) = MaxPermits - 1

\* C12: once shutdown was signalled, main is past the drain loop and exits
\* only when no dispatched handler is still running: each has returned and
\* released its permit.
C12_ExitAfterDrain ==
    (acceptor # <<>> /\ acceptor.pc = "exited")
        => (~g_is_server_running /\ Running = {} /\ acceptor.drained = MAX_CONNECTIONS)
\* main has exited after a shutdown that found handlers running.
C12_Witness ==
    /\ acceptor # <<>> /\ acceptor.pc = "exited" /\ acceptor.inflight >= 1
    /\ \E h \in DOMAIN hs : hs[h].pc = "returned" /\ hs[h].path = "complete"

\* A handler thread that waits for the cache mutex; the acceptor waiting
\* for a permit.
WaitsForMutex(h) == hs[h].pc \in {"probe", "store"} /\ ~MutexAcquirable(mutex)
WaitsForPermit ==
    /\ permits = 0
    /\ \/ acceptor.pc \in {"acquire", "wait"}
       \/ acceptor.pc = "drain" /\ acceptor.drained < MAX_CONNECTIONS
\* C14: whoever holds the cache mutex is inside cache_find or cache_add,
\* which touch no socket and no semaphore (the acceptor never takes the
\* mutex); and it never happens that the acceptor waits for a permit while
\* every running handler waits for the mutex.
C14_NoBlockingUnderMutex ==
    acceptor # <<>> =>
        /\ mutex # 0 => (mutex \in Running /\ hs[mutex].pc \in {"find_cs", "add_cs"})
        /\ \A h \in Running : hs[h].pc \notin {"find_cs", "add_cs"} => mutex # h
        /\ ~(WaitsForPermit /\ \A h \in Running : WaitsForMutex(h))
\* The acceptor waits for a permit, one handler is inside cache_add and
\* another waits for the mutex.
C14_Witness ==
    /\ acceptor # <<>> /\ WaitsForPermit
    /\ \E h1, h2 \in DOMAIN hs :
          /\ hs[h1].pc = "add_cs" /\ mutex = h1
          /\ WaitsForMutex(h2)

(***************************************************************************)
(* Properties of one request: sockets, replies, the relayed response.      *)
(***************************************************************************)
\* C13: when the handler has returned, by whatever path, the client socket
\* has been closed exactly once and every origin socket that was created
\* has been closed exactly once, also the one of a failed connection; at
\* no time is a socket closed more often than it was opened.
C13_SocketsClosedOnce ==
    fw # <<>> =>
        /\ fw.cclosed <= 1 /\ fw.oclosed <= fw.osocks
        /\ fw.pc = "done" => (fw.cclosed = 1 /\ fw.oclosed = fw.osocks)
        /\ fw.pc # "done" => (fw.cclosed = 0 /\ (fw.oopen <=> fw.oclosed < fw.osocks))
\* The handler has returned after a connection to the origin that failed
\* with a socket already created.
C13_Witness ==
    /\ fw # <<>> /\ fw.pc = "done" /\ fw.connfail
    /\ fw.osocks = 1 /\ fw.oclosed = 1 /\ fw.cclosed = 1

\* C15: when the cache probe of a request hits, the handler creates no
\* socket to the origin and sends nothing to an origin for that request.
C15_HitNeedsNoOrigin ==
    (fw # <<>> /\ fw.hit) => (fw.osocks = 0 /\ ~fw.oopen /\ fw.osent = 0)
\* The handler has returned after a hit whose payload went to the client.
C15_Witness ==
    /\ fw # <<>> /\ fw.pc = "done" /\ fw.hit /\ fw.out = ReqCached

\* C16: whenever the forwarder calls cache_add(url, acc), acc is every byte
\* received from the origin on this connection, in order, without gap or
\* repetition, and it is the byte sequence that went to the client.
C16_StoredIsReceivedIsForwarded ==
    (fw # <<>> /\ fw.adds # <<>>) =>
        /\ fw.adds[1] = Stretch(1, fw.received)
        /\ fw.adds[1] = fw.out

\* C17: on a miss, unless a send to the client failed with an error, the
\* client has received every byte the origin sent, in order, when the
\* response loop is over; also when a send wrote part of a chunk or 0.
C17_ClientGetsEveryByte ==
    (fw # <<>> /\ fw.ended \in {"eof", "recv_error"}) => fw.out = Stretch(1, fw.received)

\* C18: a response is written to the cache only when the response loop
\* ended with the origin's clean close (recv returned 0) and the
\* accumulator is not empty; after a recv error or timeout, or a failed
\* send to the client, nothing is written.
C18_StoreOnlyAfterCleanClose ==
    (fw # <<>> /\ fw.adds # <<>> /\ fw.adds[1] # <<>>) => fw.ended = "eof"

\* C19: when the connection to the origin fails, nothing is cached, a GET
\* client has received 502 and a CONNECT client has received no byte when
\* its connection is closed.
C19_ConnectFailureReplies ==
    (fw # <<>> /\ fw.pc = "done" /\ fw.connfail) =>
        /\ fw.adds = <<>>
        /\ fw.out = IF fw.method = "CONNECT" THEN <<>> ELSE <<502>>

\* C20: a GET request rejected as oversized (no blank line within the
\* header limit) or malformed (no target, URL that does not parse) has got
\* 400 and nothing else when its connection is closed, and no socket to an
\* origin was created for it.
C20_RejectedGets400 ==
    (fw # <<>> /\ fw.pc = "done" /\ fw.method = "GET" /\ fw.reject # "none") =>
        (fw.out = <<400>> /\ fw.osocks = 0)

\* C21: for a request that begins with neither "GET " nor "CONNECT " the
\* handler creates no socket to an origin, sends nothing to an origin,
\* relays nothing, calls no cache_add, and has closed the client socket
\* when it returns.
C21_OtherMethodRejected ==
    (fw # <<>> /\ fw.method = "OTHER") =>
        /\ fw.osocks = 0 /\ fw.osent = 0 /\ fw.received = 0 /\ fw.adds = <<>>
        /\ fw.pc = "done" => fw.cclosed = 1

\* C28: in both accept loops the acceptor holds an admission permit
\* whenever it has accepted a client connection: the permit was acquired
\* before accept was called.
C28_PermitBeforeAccept ==
    (acceptor # <<>> /\ acceptor.sock = 1) => acceptor.held = 1

\* C29: an accept-loop iteration that held a permit and ends without
\* starting a handler gives that permit back exactly once and closes the
\* accepted client socket; at the top of the loop, in the drain loop and
\* after exit the acceptor owns neither a permit nor a client socket.
C29_FailureReleasesAndCloses ==
    /\ [](acceptor # <<>> =>
            ((\/ acceptor.pc \in {"loop", "acquire", "drain", "exited"}
              \/ impl = "c" /\ acceptor.pc = "accept")
                => acceptor.held = 0 /\ acceptor.sock = 0))
    /\ [][(acceptor # <<>> /\ acceptor.held = 1 /\ acceptor'.held = 0 /\ Running' = Running)
            => (permits' = permits + 1 /\ acceptor'.sock = 0)]_vars
\* Thread creation failed for an accepted client while another handler was
\* running: the permit is back and the client socket closed.
C29_Witness ==
    /\ acceptor # <<>> /\ acceptor.last = "start_failed"
    /\ acceptor.held = 0 /\ acceptor.sock = 0
    /\ Running # {} /\ permits = MaxPermits - Cardinality(Running)

\* C30: once console_handler has cleared the running flag (wherever the
\* acceptor is at that moment) and handlers keep running to their return,
\* main leaves the accept loop, the drain loop gets every permit and main
\* exits; after the acceptor has seen the cleared flag no handler starts.
C30_ShutdownCompletes ==
    /\ (~g_is_server_running) ~> (acceptor.pc = "exited")
    /\ [][acceptor.pc \in {"drain", "exited"} => Running' \subseteq Running]_vars
\* main has exited after a shutdown that arrived while every permit was out.
C30_Witness ==
    /\ acceptor # <<>> /\ acceptor.pc = "exited" /\ acceptor.inflight = MAX_CONNECTIONS

\* Bytes held by the first k keys of s, a sequence of resident keys.
RECURSIVE LenOfFirst(_, _)
LenOfFirst(s, k) == IF k = 0 THEN 0 ELSE NodeLen(NodeOf(s[k])) + LenOfFirst(s, k - 1)

FindNow(u) ==
    IF impl = "cpp" THEN Cache_cache_find(cache_system, u).ret
    ELSE LET r == cache_find(g_cache, Ptr(u))
         IN IF r.ret = NULLP THEN <<>>
            ELSE SubSeq(r.cache.elems[r.ret].data, 1, r.cache.elems[r.ret].len)

\* C27 as stated: after cache_add(u, b) with len(b) > capacity on a
\* resident key u, the old entry is gone and cache_find(u) finds nothing.
C27_OversizedPutRemovesOld ==
    (call.op = "add" /\ call.big /\ call.existed)
        => (call.url \notin Keys /\ FindNow(call.url) = <<>>)
\* C27, amended: after cache_add(u, b) with len(b) > capacity on a resident
\* key u the call has failed and the old entry for u is still in the
\* cache: cache_find(u) returns the payload stored before the call.
C27_OversizedPutKeepsOld ==
    (call.op = "add" /\ call.big /\ call.existed)
        => /\ call.url \in Keys /\ call.url \in DOMAIN stored
           /\ FindNow(call.url) = stored[call.url]
           /\ call.evicted = 0
\* An oversized put on a resident key has just returned; another key is
\* resident too.
C27_Witness ==
    /\ call.op = "add" /\ call.big /\ call.existed /\ call.url # ""
    /\ Cardinality(Keys) = 2 /\ FindNow(call.url) # <<>>

\* Bytes held by the first k nodes of the recency list.
RECURSIVE ListBytes(_)
ListBytes(k) == IF k = 0 THEN 0 ELSE NodeLen(ListNodes[k]) + ListBytes(k - 1)

\* C24: a cache_add in which an allocation failed has changed nothing: the
\* same keys are resident with the same payloads, in the same recency
\* order, and the byte count is the same.
C24_FailedAllocIsNoOp ==
    [][call'.op = "add_failed" =>
          /\ Keys' = Keys /\ ListUrls' = ListUrls /\ CurrentSize' = CurrentSize
          /\ \A u \in Keys : u \in Keys' /\ PayloadOf(u)' = PayloadOf(u)]_vars

\* C25: after a cache_add in which an allocation failed, the keys of the
\* map are exactly the URLs of the nodes in the recency list, each once,
\* and current_size is the sum of the listed payload lengths.
C25_FailedAllocLeavesNoPartialEntry ==
    call.op = "add_failed" =>
        /\ Keys = Range(ListUrls)
        /\ \A i, j \in DOMAIN ListUrls : ListUrls[i] = ListUrls[j] => i = j
        /\ \A u \in Keys : NodeOf(u) \in Range(ListNodes)
        /\ CurrentSize = ListBytes(Len(ListNodes))

\* s is an initial part of t.
IsPrefix(s, t) == Len(s) <= Len(t) /\ \A i \in DOMAIN s : s[i] = t[i]

\* C22: in a CONNECT tunnel what the origin socket took is, at every
\* moment, an initial part of what was received from the client, and what
\* the client socket took an initial part of what was received from the
\* origin: nothing dropped, repeated, reordered or changed, also when a
\* send takes only part of a chunk.
C22_TunnelStreamsArePrefixes ==
    fw # <<>> =>
        /\ IsPrefix(fw.oout, Stretch(1, fw.cin))
        /\ IsPrefix(fw.cout, Stretch(1, fw.oin))

\* C23: the relay loop runs only with the origin connected and the whole
\* 200 OK response, once, at the client; when a send of the 200 OK failed
\* nothing is read from or relayed to either side; and after the handler
\* has returned the origin socket is not open.
C23_RelayOnlyAfterOkSent ==
    fw # <<>> =>
        /\ fw.pc \in {"tunnel", "tunnel_send"}
              => (fw.oopen /\ fw.okout = Stretch(1, OK_RESPONSE_LEN))
        /\ fw.okfail => (fw.pc \notin {"tunnel", "tunnel_send"}
                         /\ fw.cin = 0 /\ fw.oin = 0 /\ fw.oout = <<>> /\ fw.cout = <<>>)
        /\ fw.pc = "done" => ~fw.oopen

(***************************************************************************)
(* cache_find as a frame, the eviction loop, the shape of the list.        *)
(***************************************************************************)
\* C38: cache_find changes nothing but recency.  A call that returns absent
\* (empty URL or map miss) leaves the map, the list order and current_size
\* unchanged; a call that hits leaves the set of keys, every payload,
\* current_size and the relative order of all other entries unchanged and
\* moves only the found entry to the head.
C38_FindChangesOnlyRecency ==
    [][call'.op = "find" =>
          \E pre \in {ListUrls}, post \in {ListUrls'} :
             /\ Keys' = Keys
             /\ CurrentSize' = CurrentSize
             /\ \A u \in Keys : (PayloadOf(u))' = PayloadOf(u)
             /\ IF call'.hit
                THEN post = <<call'.url>> \o SeqWithout(pre, call'.url)
                ELSE /\ post = pre
                     /\ cache_system' = cache_system /\ g_cache' = g_cache]_vars
\* A get has hit in a full cache of three entries, one byte each.
C38_Witness ==
    /\ call.op = "find" /\ call.hit
    /\ Cardinality(Keys) = 3 /\ CurrentSize = Capacity
    /\ ListUrls[1] = call.url

\* What the eviction loop looks at, and the keys it has left.
LoopView(size, keys, tail) == [size |-> size, keys |-> keys, empty |-> tail = NULLP]

\* Cache::cache_add at the point where remove_lru_node_unlocked is called:
\* for a resident key the old node is detached and its length subtracted.
Cache_before_eviction(c, url) ==
    IF url \in DOMAIN c.cache_map
    THEN LET existing_node == c.cache_map[url]
             c1 == Cache_detach_node_unlocked(c, existing_node)
         IN [c1 EXCEPT !.current_size = @ - Len(c1.nodes[existing_node].data_ptr)]
    ELSE c
\* One pass through the body of the while loop of remove_lru_node_unlocked.
Cache_remove_lru_node_pass(c) ==
    LET old_node == c.tail
        d == Cache_detach_node_unlocked(c, old_node)
    IN [d EXCEPT !.current_size = @ - Len(d.nodes[old_node].data_ptr),
                 !.cache_map = MapErase(@, d.nodes[old_node].url)]
\* The cache each time the loop condition is evaluated: the last view is the
\* one the loop is left with, every earlier one is followed by a pass.
RECURSIVE Cache_eviction_passes(_, _)
Cache_eviction_passes(c, required_space) ==
    LET view == LoopView(c.current_size, DOMAIN c.cache_map, c.tail)
    IN IF c.tail # NULLP /\ c.current_size + required_space > MAX_CACHE_BYTES
       THEN <<view>> \o Cache_eviction_passes(Cache_remove_lru_node_pass(c), required_space)
       ELSE <<view>>

\* cache_add at the point where its eviction loop begins.
cache_before_eviction(g, url) ==
    LET existing_element == map_find(g, url)
        g1 == detach_node_unlocked(g, existing_element)
    IN IF existing_element # NULLP
       THEN [g1 EXCEPT !.current_size = @ - g1.elems[existing_element].len]
       ELSE g
\* while (g_cache.current_size + length > MAX_CACHE_SIZE)
\*     remove_lru_element_unlocked();
\* followed for at most fuel passes.
RECURSIVE cache_eviction_passes(_, _, _)
cache_eviction_passes(g, length, fuel) ==
    LET view == LoopView(g.current_size, DOMAIN g.map, g.tail)
    IN IF g.current_size + length > MAX_CACHE_SIZE /\ fuel > 0
       THEN <<view>> \o cache_eviction_passes(remove_lru_element_unlocked(g), length,
                                              fuel - 1)
       ELSE <<view>>

\* The views of the loop in the call that stores length bytes under url.
EvictionPasses(url, length) ==
    IF impl = "cpp"
    THEN Cache_eviction_passes(Cache_before_eviction(cache_system, url), length)
    ELSE cache_eviction_passes(cache_before_eviction(g_cache, url), length,
                               Cardinality(NodeIds) + 1)

\* C39: the eviction loop inside cache_add always terminates.  For every
\* admissible payload (length <= capacity) and every cache that public calls
\* can build, also when the key is resident and its entry has been detached
\* and when the list has become empty, every pass is made with a non-empty
\* list, removes one entry and strictly reduces current_size, so the loop is
\* never run with an empty list while current_size + length exceeds the
\* capacity, and the call returns.
C39_EvictionLoopTerminates ==
    [][call'.op = "add" /\ call'.ok =>
          /\ ~hung'
          /\ \E length \in {(NodeLen(NodeOf(call.url)))'} :
             \E passes \in {EvictionPasses(call'.url, length)} :
                /\ Len(passes) <= Cardinality(NodeIds) + 1
                /\ \A i \in 1..(Len(passes) - 1) :
                      /\ ~passes[i].empty
                      /\ passes[i + 1].size < passes[i].size
                      /\ passes[i + 1].keys \subseteq passes[i].keys
                      /\ Cardinality(passes[i].keys \ passes[i + 1].keys) = 1
                /\ passes[Len(passes)].size + length <= Capacity
                /\ passes[Len(passes)].keys \ {call'.url} = Keys' \ {call'.url}]_vars
\* A put to a resident key has emptied the list: its own entry was detached
\* and both others were evicted for a payload that fills the cache.
C39_Witness ==
    /\ call.op = "add" /\ call.ok /\ call.existed /\ call.evicted = 2
    /\ ListUrls = <<call.url>> /\ CurrentSize = Capacity /\ ~hung

\* C40: between public cache operations the recency list is a well-formed
\* doubly-linked list: head is null exactly when tail is null exactly when
\* the cache is empty, head has no predecessor and tail has no successor,
\* following next from head visits every entry once and ends at tail, and
\* for every node n with a successor, n.next.prev is n.
C40_ListWellFormed ==
    LET nodes == ListNodes
        entries == {NodeOf(u) : u \in Keys}
    IN /\ (ListHead = NULLP) <=> (ListTail = NULLP)
       /\ (ListHead = NULLP) <=> (Keys = {})
       /\ ListHead # NULLP =>
             /\ ListHead \in DOMAIN Heap /\ Heap[ListHead].prev = NULLP
             /\ ListTail \in DOMAIN Heap /\ Heap[ListTail].next = NULLP
             /\ nodes[Len(nodes)] = ListTail
       /\ {nodes[i] : i \in DOMAIN nodes} = entries
       /\ Len(nodes) = Cardinality(entries)
       /\ Cardinality(entries) = Cardinality(Keys)
       /\ \A i \in DOMAIN nodes :
             Heap[nodes[i]].next # NULLP =>
                /\ Heap[nodes[i]].next \in DOMAIN Heap
                /\ Heap[Heap[nodes[i]].next].prev = nodes[i]
\* A get has moved the middle one of three entries to the head.
C40_Witness ==
    /\ call.op = "find" /\ call.hit /\ Len(ListNodes) = 3
    /\ ListHead = NodeOf(call.url)
    /\ Heap[ListHead].next # NULLP /\ Heap[ListTail].prev = Heap[ListHead].next

(***************************************************************************)
(* Properties of the handler's sends, of the byte counter and of the end   *)
(* of a tunnel.                                                            *)
(***************************************************************************)
\* What ends a tunnel: select failed or timed out, recv returned 0 or an
\* error, send returned an error.
TunnelEnds == {"select_error", "timeout", "recv_closed", "recv_error", "send_error"}

\* C37: in the relay loop, as soon as recv on either socket returns 0 or an
\* error, a send fails, select fails, or select times out with neither side
\* readable, the tunnel ends: no further byte is relayed in either
\* direction, the loop is left, and both the client and the origin socket
\* are closed.
C37_TunnelEndsAtOnce ==
    /\ [](fw # <<>> /\ fw.tev \in TunnelEnds =>
             /\ fw.pc = "done"
             /\ fw.cclosed = 1 /\ ~fw.oopen /\ fw.oclosed = fw.osocks)
    /\ [][fw # <<>> /\ fw'.tev \in TunnelEnds =>
             /\ fw'.oout = fw.oout /\ fw'.cout = fw.cout
             /\ fw'.cin = fw.cin /\ fw'.oin = fw.oin]_vars
\* The origin closed its side after bytes had gone both ways.
C37_Witness ==
    /\ fw # <<>> /\ fw.pc = "done" /\ fw.tev = "recv_closed" /\ fw.dir = "down"
    /\ fw.oout # <<>> /\ fw.cout # <<>> /\ fw.cclosed = 1 /\ fw.oclosed = 1

\* C31: on a cache hit, unless a send to the client fails, the client has
\* received every byte of the cached payload, in order, when its socket is
\* closed; also when a send call takes only part of the buffer.
C31_HitDrainsPayload ==
    (fw # <<>> /\ fw.pc = "done" /\ fw.hit /\ ~fw.hitfail)
        => (fw.cclosed = 1 /\ fw.out = fw.cached)

\* C34: the rebuilt request has gone to the origin completely before the
\* handler reads the response, also when a send call takes only part of
\* it; a send error ends the exchange with both sockets closed and no
\* cache write.
C34_RequestSentBeforeResponse ==
    fw # <<>> =>
        /\ (fw.pc \in {"relay_recv", "relay_send", "store"} \/ fw.received > 0)
              => fw.oreq = REBUILT_LEN
        /\ fw.path = "origin_send_error"
              => /\ fw.pc = "done" /\ fw.received = 0 /\ fw.adds = <<>>
                 /\ fw.cclosed = 1 /\ ~fw.oopen /\ fw.oclosed = fw.osocks

\* C32: once more than MAX_CACHE_BYTES / MAX_CACHE_SIZE bytes have come from
\* the origin for one response, that response is not written to the cache,
\* however long it is (also past the range of the handler's int byte
\* counter), and streaming goes on until the origin closes: a client that
\* takes every byte has them all.
C32_OversizedNeverCached ==
    (fw # <<>> /\ fw.received > Capacity) =>
        /\ ReqUrl \notin Keys
        /\ fw.ended = "eof" => fw.out = Stretch(1, fw.received)

\* ---------------------------------------------------------------------
\* Request targets: parseHttpUrl / parse_full_url and the CONNECT split.
\* A string is a sequence of one-character strings.
\* ---------------------------------------------------------------------

\* Longest authority drawn.
MaxAuthority == 6
\* Largest port (65535), scaled: the shortest digit string above it is 7777.
PORT_MAX == 777
\* sizeof(parts->host) (256), scaled.
HOST_SIZE == 6

DigitChars == <<"0", "1", "2", "3", "4", "5", "6", "7", "8", "9">>
\* isdigit.
Digits == {DigitChars[i] : i \in 1..10}
DigitVal(c) == (CHOOSE i \in 1..10 : DigitChars[i] = c) - 1
AuthorityChars == {"h", ":", "7"}
Authorities == UNION {[1..n -> AuthorityChars] : n \in 0..MaxAuthority}
Schemes == {<<>>, <<"h", ":", "/", "/">>}
UrlPaths == {<<>>, <<"/">>, <<"/", "h", ":", "7">>}
Targets == {s \o a \o p : s \in Schemes, a \in Authorities, p \in UrlPaths}

\* std::string::find / strstr / strchr: the least index i >= from at which
\* pat starts, 0 when there is none.
find(s, pat, from) ==
    LET at == {i \in from..(Len(s) - Len(pat) + 1) : SubSeq(s, i, i + Len(pat) - 1) = pat}
    IN IF at = {} THEN 0 ELSE CHOOSE i \in at : \A j \in at : i <= j
\* std::string::rfind: the greatest index at which ch stands, 0 when none.
rfind(s, ch) ==
    LET at == {i \in 1..Len(s) : s[i] = ch}
    IN IF at = {} THEN 0 ELSE CHOOSE i \in at : \A j \in at : j <= i
\* s.substr(from): the rest of s from index from.
substr(s, from) == SubSeq(s, from, Len(s))

\* The value of a string of digits.
RECURSIVE DigitsValue(_)
DigitsValue(s) ==
    IF s = <<>> THEN 0
    ELSE 10 * DigitsValue(SubSeq(s, 1, Len(s) - 1)) + DigitVal(s[Len(s)])
\* std::stoi on a string already known to be all digits.
stoi(s) == DigitsValue(s)
\* atoi: the value of the leading digits, 0 when there are none.
atoi(s) ==
    LET stop == {i \in 1..Len(s) : s[i] \notin Digits}
        n == IF stop = {} THEN Len(s) ELSE (CHOOSE i \in stop : \A j \in stop : i <= j) - 1
    IN DigitsValue(SubSeq(s, 1, n))

ParseFail == [ok |-> FALSE, host |-> <<>>, port |-> 0, path |-> <<>>]

\* ProxyHandler::parseHttpUrl.  request_Part.port is the port string; the
\* record carries its value.
parseHttpUrl(url) ==
    LET protocol_pos == find(url, <<":", "/", "/">>, 1)
        host_start == protocol_pos + 3
        path_start == find(url, <<"/">>, host_start)
        authority_segment == IF path_start = 0 THEN substr(url, host_start)
                             ELSE SubSeq(url, host_start, path_start - 1)
        path == IF path_start = 0 THEN <<"/">> ELSE substr(url, path_start)
        port_pos == rfind(authority_segment, ":")
        port_str == substr(authority_segment, port_pos + 1)
    IN IF url = <<>> \/ protocol_pos = 0 THEN ParseFail
       ELSE IF port_pos = 0
            THEN [ok |-> TRUE, host |-> authority_segment, port |-> 80, path |-> path]
       ELSE IF port_str = <<>> \/ (\E i \in 1..Len(port_str) : port_str[i] \notin Digits)
            THEN ParseFail
       ELSE IF stoi(port_str) < 0 \/ stoi(port_str) > PORT_MAX THEN ParseFail
       ELSE [ok |-> TRUE, host |-> SubSeq(authority_segment, 1, port_pos - 1),
             port |-> stoi(port_str), path |-> path]

\* parse_full_url.
parse_full_url(url) ==
    LET scheme == find(url, <<":", "/", "/">>, 1)
        host_start == IF scheme # 0 THEN scheme + 3 ELSE 1
        path_start == find(url, <<"/">>, host_start)
        path == IF path_start # 0 THEN substr(url, path_start) ELSE <<"/">>
        cut == IF path_start # 0 THEN SubSeq(url, host_start, path_start - 1)
               ELSE substr(url, host_start)
        port_start == find(cut, <<":">>, 1)
        host == IF port_start # 0 THEN SubSeq(cut, 1, port_start - 1) ELSE cut
        port == IF port_start # 0 THEN atoi(substr(cut, port_start + 1)) ELSE 80
    IN IF Len(host) >= HOST_SIZE THEN ParseFail
       ELSE [ok |-> TRUE, host |-> host, port |-> port, path |-> path]

\* The CONNECT branch of handleClient: target split at its last ':', the
\* port string handed to connectToRemoteHost as it stands.
connect_target_cpp(url) ==
    LET port_pos == rfind(url, ":")
    IN IF port_pos # 0
       THEN [host |-> SubSeq(url, 1, port_pos - 1), port |-> substr(url, port_pos + 1)]
       ELSE [host |-> url, port |-> <<"4", "4", "3">>]
\* The CONNECT branch of handle_client: target split at its first ':',
\* the port through atoi.
connect_target_c(url) ==
    LET colon == find(url, <<":">>, 1)
    IN IF colon # 0
       THEN [host |-> SubSeq(url, 1, colon - 1), port |-> atoi(substr(url, colon + 1))]
       ELSE [host |-> url, port |-> 443]

UrlStart(method, url) ==
    [pc |-> "target", method |-> method, url |-> url, ok |-> FALSE,
     host |-> <<>>, port |-> 0, path |-> <<>>, dialed |-> FALSE, connected |-> FALSE,
     out |-> <<>>]

UrlInit ==
    /\ RequestSetup
    /\ \E method \in {"GET", "CONNECT"}, url \in Targets : fw = UrlStart(method, url)

UrlUnchanged == UNCHANGED <<cache_system, g_cache, histVars, concVars, handlerVars, serverVars>>

\* GET: the target goes through the URL parser (after the cache missed).
\* An empty target ends handleClient before that; a failed parse ends
\* handleClient silently and makes handle_client answer 400.
UrlParse ==
    /\ fw.pc = "target" /\ fw.method = "GET"
    /\ LET r == IF impl = "cpp" THEN parseHttpUrl(fw.url) ELSE parse_full_url(fw.url)
       IN fw' = [fw EXCEPT !.ok = r.ok, !.host = r.host, !.port = r.port, !.path = r.path,
                           !.pc = IF r.ok THEN "dial" ELSE "done",
                           !.out = IF ~r.ok /\ impl = "c" THEN <<400>> ELSE @]
    /\ UrlUnchanged

\* CONNECT: the target is split in place; only an empty target (C++) is
\* turned away.
UrlConnectSplit ==
    /\ fw.pc = "target" /\ fw.method = "CONNECT"
    /\ LET r == IF impl = "cpp" THEN connect_target_cpp(fw.url) ELSE connect_target_c(fw.url)
       IN fw' = IF impl = "cpp" /\ fw.url = <<>>
                THEN [fw EXCEPT !.pc = "done"]
                ELSE [fw EXCEPT !.ok = TRUE, !.host = r.host, !.port = r.port, !.pc = "dial"]
    /\ UrlUnchanged

\* connectToRemoteHost / connect_to_remote with the host and port the
\* parse left: getaddrinfo and connect succeed or fail.
UrlDial(ok) ==
    /\ fw.pc = "dial"
    /\ fw' = [fw EXCEPT !.dialed = TRUE, !.connected = ok, !.pc = "done",
                        !.out = IF ok THEN @
                                ELSE IF fw.method = "GET" \/ impl = "c" THEN <<502>> ELSE @]
    /\ UrlUnchanged

UrlNext ==
    \/ UrlParse
    \/ UrlConnectSplit
    \/ \E ok \in BOOLEAN : UrlDial(ok)

SpecUrl == UrlInit /\ [][UrlNext]_vars

\* What the specification asks of a target: the authority is what stands
\* between "://" (or the start, for CONNECT) and the next '/'.
SchemeEnds(url) == {i \in 1..Len(url) : i + 2 <= Len(url) /\ SubSeq(url, i, i + 2) = <<":", "/", "/">>}
AfterScheme(url) ==
    LET p == CHOOSE i \in SchemeEnds(url) : \A j \in SchemeEnds(url) : i <= j
    IN SubSeq(url, p + 3, Len(url))
Slashes(s) == {i \in 1..Len(s) : s[i] = "/"}
FirstSlash(s) == CHOOSE i \in Slashes(s) : \A j \in Slashes(s) : i <= j
AuthorityOf(s) == IF Slashes(s) = {} THEN s ELSE SubSeq(s, 1, FirstSlash(s) - 1)
PathOf(s) == IF Slashes(s) = {} THEN <<"/">> ELSE SubSeq(s, FirstSlash(s), Len(s))
Colons(a) == {i \in 1..Len(a) : a[i] = ":"}
LastColon(a) == CHOOSE i \in Colons(a) : \A j \in Colons(a) : j <= i
PortDigits(a) == SubSeq(a, LastColon(a) + 1, Len(a))
PortMalformed(a) ==
    /\ Colons(a) # {}
    /\ \/ PortDigits(a) = <<>>
       \/ \E i \in 1..Len(PortDigits(a)) : PortDigits(a)[i] \notin Digits
       \/ DigitsValue(PortDigits(a)) > PORT_MAX
HostExpected(a) == IF Colons(a) = {} THEN a ELSE SubSeq(a, 1, LastColon(a) - 1)
PortExpected(a, default) == IF Colons(a) = {} THEN default ELSE DigitsValue(PortDigits(a))

\* C35: once a GET target has gone through the URL parser, the parse has
\* failed exactly when the target has no "://" or the port after the
\* authority's last ':' is empty, not all digits or above 65535; when it
\* succeeded, host is the authority up to its last ':' (all of it when
\* there is none), port the number after that ':' (80 when there is
\* none) and path the target from the first '/' after "://" ("/" when
\* there is none).
C35_UrlParserSplitsAuthority ==
    (fw.method = "GET" /\ fw.pc # "target") =>
        IF SchemeEnds(fw.url) = {} \/ PortMalformed(AuthorityOf(AfterScheme(fw.url)))
        THEN ~fw.ok
        ELSE /\ fw.ok
             /\ fw.host = HostExpected(AuthorityOf(AfterScheme(fw.url)))
             /\ fw.port = PortExpected(AuthorityOf(AfterScheme(fw.url)), 80)
             /\ fw.path = PathOf(AfterScheme(fw.url))

\* The port a CONNECT split left, as a number.
ConnectPort(rec) == IF impl = "cpp" THEN DigitsValue(rec.port) ELSE rec.port

\* C36: once a CONNECT target has been split, a target whose port (what
\* follows its last ':') is empty, not all digits or above 65535 has led
\* to no connection attempt and none is pending; any other target has
\* host = the target up to its last ':' and port = the number after it,
\* 443 when the target has no ':'.
C36_ConnectTargetValidated ==
    (fw.method = "CONNECT" /\ fw.pc # "target") =>
        IF PortMalformed(fw.url)
        THEN ~fw.dialed /\ fw.pc # "dial"
        ELSE fw.ok => /\ fw.host = HostExpected(fw.url)
                      /\ ConnectPort(fw) = PortExpected(fw.url, 443)

\* ---------------------------------------------------------------------
\* The request rebuilt for the origin on a miss.  Characters are strings;
\* "CR" and "LF" stand for the two bytes of a line end.
\* ---------------------------------------------------------------------

\* Most header lines in a client request.
MaxHeaders == 3
\* sizeof(new_request) (MAX_BYTES = 4096), scaled: the three lines the
\* proxy writes itself take 44 characters of it.
NEW_REQUEST_SIZE == 56

CRLF == <<"CR", "LF">>
HTTP_1_1 == <<"H", "T", "T", "P", "/", "1", ".", "1">>
HostName == <<"H", "o", "s", "t", ":">>
ConnectionName == <<"C", "o", "n", "n", "e", "c", "t", "i", "o", "n", ":">>
ConnectionClose == ConnectionName \o <<" ", "c", "l", "o", "s", "e">>
RebuildTarget == <<"h", ":", "/", "/", "h", "/">>
\* Header lines a client may send.
HeaderLines ==
    { <<"H", "o", "s", "t", ":", "a">>, <<"h", "O", "S", "T", ":", "a">>,
      <<"c", "o", "n", "n", "e", "c", "t", "i", "o", "n", ":", "k">>,
      <<"X", ":", "1">>, <<"Y", ":", "2">>, <<"H", "o", "s", ":", "a">> }
HeaderBlocks == UNION {[1..n -> HeaderLines] : n \in 0..MaxHeaders}

UpperCase == <<"A", "B", "C", "D", "E", "F", "G", "H", "I", "J", "K", "L", "M",
               "N", "O", "P", "Q", "R", "S", "T", "U", "V", "W", "X", "Y", "Z">>
LowerCase == <<"a", "b", "c", "d", "e", "f", "g", "h", "i", "j", "k", "l", "m",
               "n", "o", "p", "q", "r", "s", "t", "u", "v", "w", "x", "y", "z">>
\* std::tolower.
tolower(ch) ==
    IF \E i \in 1..26 : UpperCase[i] = ch
    THEN LowerCase[CHOOSE i \in 1..26 : UpperCase[i] = ch] ELSE ch

RECURSIVE JoinLines(_)
JoinLines(lines) ==
    IF lines = <<>> THEN <<>> ELSE Head(lines) \o CRLF \o JoinLines(Tail(lines))
\* The bytes of the client's request: request line, header lines, blank
\* line, and what the client sent after it.
RequestBytes(method, lines, body) ==
    method \o <<" ">> \o RebuildTarget \o <<" ">> \o HTTP_1_1 \o CRLF
        \o JoinLines(lines) \o CRLF \o body

\* The lambda is_equals_prefix of handleClient.
is_equals_prefix(line, h) ==
    /\ \A i \in 1..Len(h) : i <= Len(line) => tolower(line[i]) = tolower(h[i])
    /\ h # <<>> /\ Len(h) <= Len(line)
\* _strnicmp(line_start, h, n) = 0, on the rest of the buffer.
strnicmp_equal(rest, h, n) ==
    /\ Len(rest) >= n
    /\ \A i \in 1..n : tolower(rest[i]) = tolower(h[i])

\* snprintf(current_pos, remaining_len, text), current_pos += len_written,
\* remaining_len -= len_written: at most remaining_len - 1 characters are
\* written, the length of the whole text is returned.
snprintf(rec, text) ==
    LET room == IF rec.remaining_len > 0 THEN rec.remaining_len - 1 ELSE 0
        n == IF Len(text) <= room THEN Len(text) ELSE room
    IN [rec EXCEPT !.rebuilt = @ \o SubSeq(text, 1, n),
                   !.remaining_len = @ - Len(text)]

RebuildStart(method, lines, body) ==
    [pc |-> "fixed", method |-> method, lines |-> lines,
     buffer |-> RequestBytes(method, lines, body),
     host |-> <<>>, path |-> <<>>, rebuilt |-> <<>>, remaining_len |-> 0,
     line_start |-> 0, sent |-> <<>>]

\* A miss for a GET (any method in the C variant) whose headers are
\* complete and whose origin is connected.
RebuildInit ==
    /\ RequestSetup
    /\ \E method \in {<<"G", "E", "T">>, <<"P", "U", "T">>}, lines \in HeaderBlocks,
          body \in {<<>>, <<"Y", ":", "2">> \o CRLF} :
          /\ impl = "cpp" => method = <<"G", "E", "T">>
          /\ fw = RebuildStart(method, lines, body)

\* The three lines the proxy writes itself, from the parsed URL.
RbFixed ==
    /\ fw.pc = "fixed"
    /\ LET parts == IF impl = "cpp" THEN parseHttpUrl(RebuildTarget)
                    ELSE parse_full_url(RebuildTarget)
           line1(m) == m \o <<" ">> \o parts.path \o <<" ">> \o HTTP_1_1 \o CRLF
           line2 == HostName \o <<" ">> \o parts.host \o CRLF
           line3 == ConnectionClose \o CRLF
           first == find(fw.buffer, CRLF, 1)
           rec == [fw EXCEPT !.host = parts.host, !.path = parts.path, !.pc = "lines",
                             !.line_start = first + 2]
       IN fw' = IF impl = "cpp"
                THEN [rec EXCEPT !.rebuilt = line1(<<"G", "E", "T">>) \o line2 \o line3]
                ELSE snprintf(snprintf(snprintf(
                         [rec EXCEPT !.remaining_len = NEW_REQUEST_SIZE],
                         line1(SubSeq(fw.buffer, 1, find(fw.buffer, <<" ">>, 1) - 1))),
                         line2), line3)
    /\ UrlUnchanged

\* One pass of the header loop of handleClient.
RbLine_cpp ==
    LET it_end == find(fw.buffer, CRLF, fw.line_start)
        line == SubSeq(fw.buffer, fw.line_start, it_end - 1)
    IN IF it_end = 0 THEN [fw EXCEPT !.pc = "send"]
       ELSE IF it_end = fw.line_start
            THEN [fw EXCEPT !.rebuilt = @ \o CRLF, !.pc = "send"]
       ELSE IF is_equals_prefix(line, HostName) \/ is_equals_prefix(line, ConnectionName)
            THEN [fw EXCEPT !.line_start = it_end + 2]
       ELSE [fw EXCEPT !.rebuilt = @ \o line \o CRLF, !.line_start = it_end + 2]

\* Step 5 of handle_client's rebuild: the blank line, if more than two
\* bytes are left.
RbFinal_c(rec) ==
    [(IF rec.remaining_len > 2 THEN snprintf(rec, CRLF) ELSE rec) EXCEPT !.pc = "send"]

\* One pass of the header loop of handle_client; leaving the loop runs
\* step 5.
RbLine_c ==
    LET line_end == find(fw.buffer, CRLF, fw.line_start)
        rest == substr(fw.buffer, fw.line_start)
        line == SubSeq(fw.buffer, fw.line_start, line_end - 1)
    IN IF ~(line_end # 0 /\ fw.remaining_len > 0) THEN RbFinal_c(fw)
       ELSE IF line_end - fw.line_start > 0
            THEN IF ~strnicmp_equal(rest, HostName, 5)
                    /\ ~strnicmp_equal(rest, ConnectionName, 11)
                 THEN [snprintf(fw, line \o CRLF) EXCEPT !.line_start = line_end + 2]
                 ELSE [fw EXCEPT !.line_start = line_end + 2]
       ELSE RbFinal_c(fw)

RbLine ==
    /\ fw.pc = "lines"
    /\ fw' = IF impl = "cpp" THEN RbLine_cpp ELSE RbLine_c
    /\ UrlUnchanged

\* send(remote, modified_request.data(), modified_request.size()) /
\* send(remote_socket, new_request, strlen(new_request)): what is handed
\* to send.
RbSend ==
    /\ fw.pc = "send"
    /\ fw' = [fw EXCEPT !.sent = fw.rebuilt, !.pc = "done"]
    /\ UrlUnchanged

RebuildNext ==
    \/ RbFixed
    \/ RbLine
    \/ RbSend

SpecRebuild == RebuildInit /\ [][RebuildNext]_vars

\* A header line's name is Host or Connection, whatever its case.
NameIs(line, name) ==
    /\ Len(line) >= Len(name)
    /\ \A i \in 1..Len(name) : tolower(line[i]) = tolower(name[i])
IsHostOrConnection(line) == NameIs(line, HostName) \/ NameIs(line, ConnectionName)
HeaderNamed(request, name) ==
    {i \in 1..Len(request) :
        /\ i + Len(name) - 1 <= Len(request)
        /\ NameIs(SubSeq(request, i, i + Len(name) - 1), name)
        /\ i > 2 /\ SubSeq(request, i - 2, i - 1) = CRLF}

\* C33: what is handed to send for the origin is the request line with
\* the path, "Host: <host>", "Connection: close", the client's header
\* lines other than Host and Connection (any case) in their order, and
\* the blank line; it has one Host header, one Connection header, and
\* ends with the blank line.
C33_RebuiltRequestShape ==
    fw.pc = "done" =>
        /\ fw.sent = fw.method \o <<" ", "/", " ">> \o HTTP_1_1 \o CRLF
                        \o HostName \o <<" ", "h">> \o CRLF
                        \o ConnectionClose \o CRLF
                        \o JoinLines(SelectSeq(fw.lines, LAMBDA l : ~IsHostOrConnection(l)))
                        \o CRLF
        /\ Cardinality(HeaderNamed(fw.sent, HostName)) = 1
        /\ Cardinality(HeaderNamed(fw.sent, ConnectionName)) = 1
        /\ Len(fw.sent) >= 4 /\ SubSeq(fw.sent, Len(fw.sent) - 3, Len(fw.sent)) = CRLF \o CRLF

====
